---------------------------- MODULE Spec2Model ----------------------------
(***************************************************************************)
(* nsjail: the mount-namespace constructor (mnt.cc) and the cgroup v1      *)
(* controller installer (cgroup.cc) as state machines.                     *)
(*                                                                         *)
(* Every system call is a step whose outcome the kernel decides; the model *)
(* draws that outcome nondeterministically and appends the call to a log   *)
(* (`calls`), so that ordering and fail-closed properties are state        *)
(* predicates over the log.                                                *)
(*                                                                         *)
(* A mount-flag bitmask is modelled as the set of the names of its bits:   *)
(* `a | b` is union, `a & ~b` is set difference, `a & b` is intersection.  *)
(***************************************************************************)
EXTENDS Naturals, Sequences, FiniteSets, TLC

VARIABLES
    \* ---- nsjconf_t, mount part
    mountpts,      \* nsjconf->mountpts: sequence of mount_t
    clone_newns,   \* nsjconf->clone_newns
    chroot,        \* nsjconf->chroot ("" = not specified)
    env,           \* the process environment: set of <<name, value>> pairs
    dirs,          \* paths for which stat() reports a directory
    add_ret,       \* return value of the last addMountPtHead/Tail call
    \* ---- mnt::initNsInternal
    pc,            \* position in initNsInternal
    idx,           \* position of the range-for loops over mountpts
    destdir,       \* getDir(nsjconf, "root")
    tmpdir,        \* getDir(nsjconf, "tmp")
    df_counter,    \* static uint64_t df_counter of mountPt
    tmpfiles,      \* the files present in the staging directory tmpdir
    calls,         \* log of the system calls issued so far
    ret,           \* return value of initNsInternal: "none" while running
    \* ---- cgroup
    cg_conf,       \* nsjconf cgroup limits
    cg_pc,         \* position in initNsFromParent / finishFromParent
    cg_dirs,       \* controllers whose NSJAIL.<pid> directory exists
    cg_files,      \* contents of the control files: <<controller, file>> -> string
    cg_calls,      \* log of the system calls of the installer
    cg_ret,        \* return value of initNsFromParent: "none" while running
    \* ---- history of the configuration phase
    adds,          \* log of the addMountPtHead/Tail calls: position, arguments, result
    \* ---- mnt::initNs in MODE_STANDALONE_EXECVE
    mode,          \* nsjconf->mode
    ppc,           \* position of the caller of initNs (the parent of the sub-child)
    init_ret,      \* return value of initNs in that mode: "none" while running
    child,         \* the sub-child: "none", "running", "zombie", "reaped"
    wstatus,       \* the wait status the sub-child terminated with
    werr,          \* what the last wait4 of the caller returned: "none", "pid",
                   \* "EINTR", "ECHILD"
    \* ---- flagsToStr
    fl_flags,      \* the argument of the last flagsToStr call, NoFlags before it
    fl_str         \* the string that call returned

mntVars == <<mountpts, clone_newns, chroot, env, dirs, add_ret,
             pc, idx, destdir, tmpdir, df_counter, tmpfiles, calls, ret>>
cgVars  == <<cg_conf, cg_pc, cg_dirs, cg_files, cg_calls, cg_ret>>
saVars  == <<mode, ppc, init_ret, child, wstatus, werr>>
fmtVars == <<fl_flags, fl_str>>
extVars == <<adds, saVars, fmtVars>>
vars    == <<mntVars, cgVars, extVars>>

-----------------------------------------------------------------------------
(* Bounds of the model *)

\* longest descriptor sequence the configuration phase builds
MaxMounts == 2

-----------------------------------------------------------------------------
(* Mount flags (bit names of <sys/mount.h>, table of flagsToStr) *)

MS_RDONLY == "MS_RDONLY"
MS_NOSUID == "MS_NOSUID"
MS_NODEV == "MS_NODEV"
MS_NOEXEC == "MS_NOEXEC"
MS_SYNCHRONOUS == "MS_SYNCHRONOUS"
MS_REMOUNT == "MS_REMOUNT"
MS_MANDLOCK == "MS_MANDLOCK"
MS_NOATIME == "MS_NOATIME"
MS_NODIRATIME == "MS_NODIRATIME"
MS_BIND == "MS_BIND"
MS_REC == "MS_REC"
MS_PRIVATE == "MS_PRIVATE"
MS_RELATIME == "MS_RELATIME"

MODE_STANDALONE_EXECVE == "MODE_STANDALONE_EXECVE"
MODE_STANDALONE_ONCE == "MODE_STANDALONE_ONCE"

NS_DIR_YES == "NS_DIR_YES"
NS_DIR_NO == "NS_DIR_NO"
NS_DIR_MAYBE == "NS_DIR_MAYBE"

\* getenv(name): the value, or "NULL" when the variable is unset
NULL == "NULL"

\* fl_flags before any flagsToStr call
NoFlags == 0 - 1
getenv(name) ==
    IF \E p \in env : p[1] = name
    THEN (CHOOSE p \in env : p[1] = name)[2]
    ELSE NULL

\* one entry of the system-call log
\*   op    the call
\*   mpt   index in mountpts of the descriptor the call is made for, 0 = none
\*   src, dst   source / target path
\*   flags mount flags; for a successful statvfs the f_flag it reported
\*   res   "ok", "fail", or "ignored" for a call whose outcome is not drawn
\*         (the code only logs its failure)
Call(op, mpt, src, dst, flags, res) ==
    [op |-> op, mpt |-> mpt, src |-> src, dst |-> dst, flags |-> flags, res |-> res]

Res(ok) == IF ok THEN "ok" ELSE "fail"


-----------------------------------------------------------------------------
(* Descriptor finalization: addMountPt, addMountPtHead, addMountPtTail *)

\* isDir(path): stat() fails or the path is no directory -> false
isDir(path) ==
    IF path = NULL THEN TRUE
    ELSE path \in dirs

\* the is_dir switch with the bind probe tested first
ResolveIsDir_bindFirst(is_dir, src, flags, src_content) ==
    CASE is_dir = NS_DIR_YES -> TRUE
      [] is_dir = NS_DIR_NO  -> FALSE
      [] is_dir = NS_DIR_MAYBE ->
            IF MS_BIND \in flags THEN isDir(src)
            ELSE IF src_content # "" THEN FALSE
            ELSE TRUE

\* the is_dir switch of addMountPt, given the finalized source
ResolveIsDir(is_dir, src, flags, src_content) ==
    CASE is_dir = NS_DIR_YES -> TRUE
      [] is_dir = NS_DIR_NO  -> FALSE
      [] is_dir = NS_DIR_MAYBE ->
            IF src_content # "" THEN FALSE
            ELSE IF src = "" THEN TRUE
            ELSE IF MS_BIND \in flags THEN isDir(src)
            ELSE TRUE

BoolStr(b) == IF b THEN "true" ELSE "false"

\* the descriptor with `mounted` starting out true
NewMount_mounted(a, src, dst) ==
    [src |-> src, dst |-> dst, fs_type |-> a.fstype,
     options |-> a.options, flags |-> a.flags,
     is_symlink |-> a.is_symlink, is_mandatory |-> a.is_mandatory,
     mounted |-> TRUE, src_content |-> a.src_content,
     is_dir |-> ResolveIsDir(a.is_dir, src, a.flags, a.src_content)]

\* addMountPt, the assignments to *mnt after the environment lookups:
\* the arguments are copied, mounted = false, is_dir is resolved
NewMount(a, src, dst) ==
    [src |-> src, dst |-> dst, fs_type |-> a.fstype,
     options |-> a.options, flags |-> a.flags,
     is_symlink |-> a.is_symlink, is_mandatory |-> a.is_mandatory,
     mounted |-> FALSE, src_content |-> a.src_content,
     is_dir |-> ResolveIsDir(a.is_dir, src, a.flags, a.src_content)]

\* addMountPt taking an unset variable for an empty one
addMountPt_unsetIsEmpty(a) ==
    LET se == IF a.src_env # "" /\ getenv(a.src_env) # NULL THEN getenv(a.src_env) ELSE ""
        de == IF a.dst_env # "" /\ getenv(a.dst_env) # NULL THEN getenv(a.dst_env) ELSE ""
    IN  [ok |-> TRUE, mnt |-> NewMount(a, se \o a.src, de \o a.dst)]

\* addMountPt(&mnt, src, dst, fstype, options, flags, is_dir, is_mandatory,
\*            src_env, dst_env, src_content, is_symlink); `a` holds the arguments.
\* ok is the return value, mnt the descriptor filled in.
addMountPt(a) ==
    LET se == IF a.src_env # "" THEN getenv(a.src_env) ELSE ""
        de == IF a.dst_env # "" THEN getenv(a.dst_env) ELSE ""
    IN  IF a.src_env # "" /\ se = NULL THEN [ok |-> FALSE]
        ELSE IF a.dst_env # "" /\ de = NULL THEN [ok |-> FALSE]
        ELSE [ok |-> TRUE, mnt |-> NewMount(a, se \o a.src, de \o a.dst)]

initVars == <<pc, idx, destdir, tmpdir, df_counter, tmpfiles, calls, ret>>
confVars == <<clone_newns, chroot, env, dirs>>

\* addMountPtHead inserting at the end
addMountPtHead_pushBack(a) ==
    /\ pc = "config"
    /\ Len(mountpts) < MaxMounts
    /\ LET r == addMountPt(a)
       IN  /\ add_ret' = BoolStr(r.ok)
           /\ mountpts' = IF r.ok THEN Append(mountpts, r.mnt) ELSE mountpts
    /\ UNCHANGED <<confVars, initVars, cgVars, saVars, fmtVars>>

\* addMountPtHead: nsjconf->mountpts.insert(begin, mnt)
addMountPtHead(a) ==
    /\ pc = "config"
    /\ Len(mountpts) < MaxMounts
    /\ LET r == addMountPt(a)
       IN  /\ add_ret' = BoolStr(r.ok)
           /\ mountpts' = IF r.ok THEN <<r.mnt>> \o mountpts ELSE mountpts
    /\ UNCHANGED <<confVars, initVars, cgVars, saVars, fmtVars>>

\* addMountPtTail: nsjconf->mountpts.push_back(mnt)
addMountPtTail(a) ==
    /\ pc = "config"
    /\ Len(mountpts) < MaxMounts
    /\ LET r == addMountPt(a)
       IN  /\ add_ret' = BoolStr(r.ok)
           /\ mountpts' = IF r.ok THEN Append(mountpts, r.mnt) ELSE mountpts
    /\ UNCHANGED <<confVars, initVars, cgVars, saVars, fmtVars>>

\* the caller of an add noting the call in the history: where it added, the
\* arguments, the value returned
LogAdd(where, a) ==
    /\ Len(adds) < MaxMounts
    /\ adds' = Append(adds, [where |-> where, args |-> a, ret |-> add_ret'])

\* the arguments the configuration phase of Spec passes to the adds
AddArgs ==
    [src : {"/s"}, dst : {"/d"}, fstype : {""}, options : {""},
     flags : {{}, {MS_RDONLY}}, is_dir : {NS_DIR_MAYBE},
     is_mandatory : BOOLEAN, src_env : {""}, dst_env : {""},
     src_content : {"", "c"}, is_symlink : BOOLEAN]

-----------------------------------------------------------------------------
(* mountPt: applying one descriptor in the mount pass *)

\* the system calls of mountPt whose failure the code acts on
MountPtFailPoints ==
    {"none", "createDirRecursively", "symlink", "open", "write", "mount"}

\* the flags of the initial mount without clearing read-only
MountFlags_keepRO(mpt) == mpt.flags

\* unsigned long flags = mpt->flags & ~(MS_RDONLY)
MountFlags(mpt) == mpt.flags \ {MS_RDONLY}

\* the symlink test of mountPt left out
IsSymlinkEntry_never(mpt) == FALSE

\* if (mpt->is_symlink) { symlink(...); return ...; }
IsSymlinkEntry(mpt) == mpt.is_symlink

\* the flags of a staged descriptor with bind alone
StagedFlags_bindOnly(mpt) == mpt.flags \cup {MS_BIND}

\* mpt->flags |= (MS_BIND | MS_REC | MS_PRIVATE)
StagedFlags(mpt) == mpt.flags \cup {MS_BIND, MS_REC, MS_PRIVATE}

O_CREAT == "O_CREAT"
O_EXCL == "O_EXCL"
O_CLOEXEC == "O_CLOEXEC"
O_WRONLY == "O_WRONLY"

\* the staging counter left as it is
NextCounter_same(counter) == counter

\* ++df_counter
NextCounter(counter) == counter + 1

\* mountPt(mpt, newroot, tmpdir) for the descriptor at index i, with the static
\* counter at `counter` and the files `files` in tmpdir; `fp` names the system
\* call that fails ("none": all succeed).  The exclusive open also fails when
\* the file exists.  Result: ret (the return value), mpt (the descriptor
\* afterwards), calls (the system calls issued, in order), counter (df_counter
\* afterwards), files (the files in tmpdir afterwards).
mountPt(mpt, i, newroot, tmpd, counter, files, fp) ==
    LET dstpath == newroot \o "/" \o mpt.dst
        srcpath0 == IF mpt.src # "" THEN mpt.src ELSE "none"
        cMkdirs == Call("createDirRecursively", i, "", dstpath, {},
                        Res(fp # "createDirRecursively"))
        cSymlink == Call("symlink", i, srcpath0, dstpath, {}, Res(fp # "symlink"))
        cDst == IF mpt.is_dir
                THEN Call("mkdir", i, "", dstpath, {}, "ignored")
                ELSE Call("open", i, "", dstpath, {}, "ignored")
        content == mpt.src_content # ""
        counter1 == IF content THEN NextCounter(counter) ELSE counter
        srcpath == IF content
                   THEN tmpd \o "/dynamic_file." \o ToString(counter1)
                   ELSE srcpath0
        openOk == fp # "open" /\ srcpath \notin files
        cOpen == Call("open_staged", i, "", srcpath,
                      {O_CREAT, O_EXCL, O_CLOEXEC, O_WRONLY}, Res(openOk))
        files1 == IF content THEN files \cup {srcpath} ELSE files
        cWrite == Call("write_staged", i, "", srcpath, {}, Res(fp # "write"))
        staged == IF content THEN <<cOpen, cWrite>> ELSE <<>>
        mpt1 == IF content THEN [mpt EXCEPT !.flags = StagedFlags(mpt)] ELSE mpt
        cMount == Call("mount", i, srcpath, dstpath, MountFlags(mpt1), Res(fp # "mount"))
        cUnlink == Call("unlink", i, "", srcpath, {}, Res(fp # "unlink"))
        files2 == IF content /\ fp # "unlink" THEN files1 \ {srcpath} ELSE files1
    IN  IF fp = "createDirRecursively"
        THEN [ret |-> FALSE, mpt |-> mpt, calls |-> <<cMkdirs>>, counter |-> counter,
              files |-> files]
        ELSE IF IsSymlinkEntry(mpt)
        THEN [ret |-> ~(fp = "symlink" /\ mpt.is_mandatory), mpt |-> mpt,
              calls |-> <<cMkdirs, cSymlink>>, counter |-> counter, files |-> files]
        ELSE IF content /\ ~openOk
        THEN [ret |-> FALSE, mpt |-> mpt,
              calls |-> <<cMkdirs, cDst, cOpen>>, counter |-> counter1,
              files |-> files]
        ELSE IF content /\ fp = "write"
        THEN [ret |-> FALSE, mpt |-> mpt,
              calls |-> <<cMkdirs, cDst, cOpen, cWrite>>, counter |-> counter1,
              files |-> files1]
        ELSE IF fp = "mount"
        THEN [ret |-> FALSE, mpt |-> mpt1,
              calls |-> <<cMkdirs, cDst>> \o staged \o <<cMount>>,
              counter |-> counter1, files |-> files1]
        ELSE [ret |-> TRUE, mpt |-> [mpt1 EXCEPT !.mounted = TRUE],
              calls |-> <<cMkdirs, cDst>> \o staged \o <<cMount>>
                        \o (IF content THEN <<cUnlink>> ELSE <<>>),
              counter |-> counter1, files |-> files2]

-----------------------------------------------------------------------------
(* remountRO: the read-only re-mount of one descriptor *)

ST_RDONLY == "ST_RDONLY"
ST_NOSUID == "ST_NOSUID"
ST_NODEV == "ST_NODEV"
ST_NOEXEC == "ST_NOEXEC"
ST_SYNCHRONOUS == "ST_SYNCHRONOUS"
ST_MANDLOCK == "ST_MANDLOCK"
ST_NOATIME == "ST_NOATIME"
ST_NODIRATIME == "ST_NODIRATIME"
ST_RELATIME == "ST_RELATIME"
\* an f_flag bit that is in no pair of mountPairs
ST_IMMUTABLE == "ST_IMMUTABLE"

\* the table mountPairs of remountRO
mountPairs ==
    << [mount_flag |-> MS_RDONLY, vfs_flag |-> ST_RDONLY],
       [mount_flag |-> MS_NOSUID, vfs_flag |-> ST_NOSUID],
       [mount_flag |-> MS_NODEV, vfs_flag |-> ST_NODEV],
       [mount_flag |-> MS_NOEXEC, vfs_flag |-> ST_NOEXEC],
       [mount_flag |-> MS_SYNCHRONOUS, vfs_flag |-> ST_SYNCHRONOUS],
       [mount_flag |-> MS_MANDLOCK, vfs_flag |-> ST_MANDLOCK],
       [mount_flag |-> MS_NOATIME, vfs_flag |-> ST_NOATIME],
       [mount_flag |-> MS_NODIRATIME, vfs_flag |-> ST_NODIRATIME],
       [mount_flag |-> MS_RELATIME, vfs_flag |-> ST_RELATIME] >>

\* new_flags without the flags statvfs reported
RemountFlags_dropReported(f_flag) == {MS_REMOUNT, MS_RDONLY, MS_BIND}

\* new_flags = MS_REMOUNT | MS_RDONLY | MS_BIND, then for each pair whose
\* vfs_flag statvfs reported (f_flag), new_flags |= mount_flag
RemountFlags(f_flag) ==
    {MS_REMOUNT, MS_RDONLY, MS_BIND}
        \cup {mountPairs[k].mount_flag :
                 k \in {j \in 1..Len(mountPairs) : mountPairs[j].vfs_flag \in f_flag}}

RemountFailPoints == {"none", "statvfs", "mount"}

\* remountRO(mpt) for the descriptor at index i; f_flag is what statvfs reports,
\* fp the system call that fails.  Result: ret, calls.
remountRO(mpt, i, f_flag, fp) ==
    IF ~mpt.mounted THEN [ret |-> TRUE, calls |-> <<>>]
    ELSE IF mpt.is_symlink THEN [ret |-> TRUE, calls |-> <<>>]
    ELSE IF MS_RDONLY \notin mpt.flags THEN [ret |-> TRUE, calls |-> <<>>]
    ELSE IF fp = "statvfs"
    THEN [ret |-> FALSE,
          calls |-> <<Call("statvfs", i, "", mpt.dst, {}, "fail")>>]
    ELSE [ret |-> fp # "mount",
          calls |-> <<Call("statvfs", i, "", mpt.dst, f_flag, "ok"),
                      Call("mount", i, mpt.dst, mpt.dst, RemountFlags(f_flag),
                           Res(fp # "mount"))>>]

-----------------------------------------------------------------------------
(* getDir: the scratch-directory chooser *)

\* std::to_string(nsjconf->orig_uid) and util::rnd64() of the modelled run
OrigUid == "1000"
Rnd64 == "rnd64"

\* the candidates of getDir(nsjconf, name), in the order they are tried; the
\* $TMPDIR candidate is tried only when the variable is set
getDirCandidates(name) ==
    LET tmp == getenv("TMPDIR")
    IN  << "/run/user/" \o "/nsjail." \o OrigUid \o "." \o name,
           "/tmp/nsjail." \o OrigUid \o "." \o name >>
        \o (IF tmp # NULL
            THEN << tmp \o "/" \o "nsjail." \o OrigUid \o "." \o name >>
            ELSE << >>)
        \o << "/dev/shm/nsjail." \o OrigUid \o "." \o name,
              "/tmp/nsjail." \o OrigUid \o "." \o name \o "." \o Rnd64 >>

\* getDir(nsjconf, name): the first candidate for which mkdirAndTest succeeds
\* (`creatable` is the set of such paths), NULL (nullptr) when none does
getDir(name, creatable) ==
    LET c == getDirCandidates(name)
        hits == {k \in 1..Len(c) : c[k] \in creatable}
    IN  IF hits = {} THEN NULL
        ELSE c[CHOOSE k \in hits : \A j \in hits : k <= j]

\* the outcomes of mkdirAndTest the model draws from: no candidate can be
\* created, or the /tmp candidate can
GetDirWorlds(name) == { {}, {getDirCandidates(name)[2]} }

-----------------------------------------------------------------------------
(* initNsInternal *)

cfgVars == <<mountpts, clone_newns, chroot, env, dirs, add_ret>>

\* mnt::initNs(nsjconf) in a mode other than MODE_STANDALONE_EXECVE:
\* return initNsInternal(nsjconf)
initNs ==
    /\ mode # MODE_STANDALONE_EXECVE
    /\ pc = "config"
    /\ pc' = "initNsInternal"
    /\ UNCHANGED <<cfgVars, idx, destdir, tmpdir, df_counter, tmpfiles, calls, ret, cgVars, extVars>>

\* the wait status of a process that has not terminated
NoStatus == [kind |-> "none", code |-> 0]

\* initNs in MODE_STANDALONE_EXECVE: pid = subproc::cloneProc(CLONE_FS | SIGCHLD);
\* -1: return false; otherwise the sub-child starts initNsInternal and the
\* caller goes on to wait for it
CloneProc ==
    /\ mode = MODE_STANDALONE_EXECVE
    /\ pc = "config"
    /\ ppc = "call"
    /\ \E ok \in BOOLEAN :
          IF ok
          THEN /\ child' = "running"
               /\ pc' = "initNsInternal"
               /\ ppc' = "wait"
               /\ init_ret' = init_ret
          ELSE /\ child' = child
               /\ pc' = "idle"
               /\ ppc' = "returned"
               /\ init_ret' = "false"
    /\ UNCHANGED <<cfgVars, idx, destdir, tmpdir, df_counter, tmpfiles, calls, ret,
                   cgVars, adds, mode, wstatus, werr, fmtVars>>

\* the sub-child exiting with code 0 whatever initNsInternal returned
ExitCode_zero(ok) == 0

\* initNsInternal(nsjconf) ? 0 : 0xff
ExitCode(ok) == IF ok THEN 0 ELSE 255

\* the sub-child: exit(initNsInternal(nsjconf) ? 0 : 0xff)
ChildExit ==
    /\ mode = MODE_STANDALONE_EXECVE
    /\ child = "running"
    /\ pc = "done"
    /\ pc' = "exited"
    /\ child' = "zombie"
    /\ wstatus' = [kind |-> "exited", code |-> ExitCode(ret = "true")]
    /\ UNCHANGED <<cfgVars, idx, destdir, tmpdir, df_counter, tmpfiles, calls, ret,
                   cgVars, adds, mode, ppc, init_ret, werr, fmtVars>>

\* the sub-child terminated by a signal at any point of initNsInternal: the
\* case WIFEXITED(status) tells apart
ChildKilled ==
    /\ mode = MODE_STANDALONE_EXECVE
    /\ child = "running"
    /\ pc' = "killed"
    /\ child' = "zombie"
    /\ wstatus' = [kind |-> "signaled", code |-> 9]
    /\ UNCHANGED <<cfgVars, idx, destdir, tmpdir, df_counter, tmpfiles, calls, ret,
                   cgVars, adds, mode, ppc, init_ret, werr, fmtVars>>

\* wait4(pid, &status, 0, NULL) of the loop returning pid: only for a
\* terminated sub-child, which it reaps
WaitSubChild ==
    /\ ppc = "wait"
    /\ child = "zombie"
    /\ child' = "reaped"
    /\ ppc' = "test"
    /\ werr' = "pid"
    /\ UNCHANGED <<mntVars, cgVars, adds, mode, init_ret, wstatus, fmtVars>>

\* the test of the loop, wait4(...) != pid: the pid ends the loop and initNs
\* returns WIFEXITED(status) && WEXITSTATUS(status) == 0; anything else calls
\* wait4 again
LoopTest ==
    /\ ppc = "test"
    /\ IF werr = "pid"
       THEN /\ ppc' = "returned"
            /\ init_ret' = BoolStr(wstatus.kind = "exited" /\ wstatus.code = 0)
       ELSE /\ ppc' = "wait"
            /\ init_ret' = init_ret
    /\ UNCHANGED <<mntVars, cgVars, adds, mode, child, wstatus, werr, fmtVars>>

\* wait4 interrupted while the sub-child runs: -1 with EINTR, which is not
\* pid, so the loop calls wait4 again
WaitInterrupted ==
    /\ ppc = "wait"
    /\ child = "running"
    /\ werr' = "EINTR"
    /\ ppc' = "test"
    /\ UNCHANGED <<mntVars, cgVars, adds, mode, init_ret, child, wstatus, fmtVars>>

\* the terminated sub-child reaped without the caller's wait4: by the kernel
\* when SIGCHLD is ignored or SA_NOCLDWAIT is set, or by another waiter
ReapedElsewhere ==
    /\ mode = MODE_STANDALONE_EXECVE
    /\ child = "zombie"
    /\ child' = "gone"
    /\ UNCHANGED <<mntVars, cgVars, adds, mode, ppc, init_ret, wstatus, werr, fmtVars>>

\* wait4 for a sub-child that is no longer there: -1 with ECHILD, which is not
\* pid, so the loop calls wait4 again
WaitNoChild ==
    /\ ppc = "wait"
    /\ child = "gone"
    /\ werr' = "ECHILD"
    /\ ppc' = "test"
    /\ UNCHANGED <<mntVars, cgVars, adds, mode, init_ret, child, wstatus, fmtVars>>

\* the entry with the test for an empty chroot path left out
Enter_noEmptyTest ==
    /\ pc = "initNsInternal"
    /\ IF clone_newns
       THEN pc' = "chdir_root" /\ ret' = ret
       ELSE pc' = "chroot" /\ ret' = ret
    /\ UNCHANGED <<cfgVars, idx, destdir, tmpdir, df_counter, tmpfiles, calls, cgVars, extVars>>

\* initNsInternal, entry: with CLONE_NEWNS the full path; without it the
\* degenerate path, which returns false when no chroot path is configured
Enter ==
    /\ pc = "initNsInternal"
    /\ IF clone_newns
       THEN pc' = "chdir_root" /\ ret' = ret
       ELSE IF chroot = ""
       THEN pc' = "done" /\ ret' = "false"
       ELSE pc' = "chroot" /\ ret' = ret
    /\ UNCHANGED <<cfgVars, idx, destdir, tmpdir, df_counter, tmpfiles, calls, cgVars, extVars>>

\* one system call `c` (without its result) at position `here` whose failure
\* makes initNsInternal return false, and whose success leads to `next`
Fatal(here, op, src, dst, flags, next) ==
    /\ pc = here
    /\ \E ok \in BOOLEAN :
          /\ calls' = Append(calls, Call(op, 0, src, dst, flags, Res(ok)))
          /\ IF ok THEN pc' = next /\ ret' = ret
                   ELSE pc' = "done" /\ ret' = "false"
    /\ UNCHANGED <<cfgVars, idx, destdir, tmpdir, df_counter, tmpfiles, cgVars, extVars>>

\* the same call with its result not checked
Unchecked(here, op, src, dst, flags, next) ==
    /\ pc = here
    /\ \E ok \in BOOLEAN :
          /\ calls' = Append(calls, Call(op, 0, src, dst, flags, Res(ok)))
          /\ pc' = next /\ ret' = ret
    /\ UNCHANGED <<cfgVars, idx, destdir, tmpdir, df_counter, tmpfiles, cgVars, extVars>>

\* ---- degenerate path: chroot(nsjconf->chroot), chdir("/"), return true
Chroot == Fatal("chroot", "chroot", "", chroot, {}, "chroot_chdir")

ChrootChdir ==
    /\ pc = "chroot_chdir"
    /\ \E ok \in BOOLEAN :
          /\ calls' = Append(calls, Call("chdir", 0, "", "/", {}, Res(ok)))
          /\ pc' = "done"
          /\ ret' = BoolStr(ok)
    /\ UNCHANGED <<cfgVars, idx, destdir, tmpdir, df_counter, tmpfiles, cgVars, extVars>>

\* ---- full path
\* chdir("/")
ChdirRoot == Fatal("chdir_root", "chdir", "", "/", {}, "getdir_root")

\* destdir = getDir(nsjconf, "root")
GetDirRoot ==
    /\ pc = "getdir_root"
    /\ \E w \in GetDirWorlds("root") :
          LET d == getDir("root", w)
          IN  /\ calls' = Append(calls, Call("getDir", 0, "", d, {}, Res(d # NULL)))
              /\ destdir' = d
              /\ IF d # NULL THEN pc' = "mount_private" /\ ret' = ret
                             ELSE pc' = "done" /\ ret' = "false"
    /\ UNCHANGED <<cfgVars, idx, tmpdir, df_counter, tmpfiles, cgVars, extVars>>

\* mount("/", "/", NULL, MS_REC | MS_PRIVATE, NULL)
MountPrivate ==
    Fatal("mount_private", "mount", "/", "/", {MS_REC, MS_PRIVATE}, "mount_destdir")

\* mount(NULL, destdir, "tmpfs", 0, "size=16777216")
MountDestdir ==
    Fatal("mount_destdir", "mount", NULL, destdir, {}, "getdir_tmp")

\* tmpdir = getDir(nsjconf, "tmp")
GetDirTmp ==
    /\ pc = "getdir_tmp"
    /\ \E w \in GetDirWorlds("tmp") :
          LET d == getDir("tmp", w)
          IN  /\ calls' = Append(calls, Call("getDir", 0, "", d, {}, Res(d # NULL)))
              /\ tmpdir' = d
              /\ IF d # NULL THEN pc' = "mount_tmpdir" /\ ret' = ret
                             ELSE pc' = "done" /\ ret' = "false"
    /\ UNCHANGED <<cfgVars, idx, destdir, df_counter, tmpfiles, cgVars, extVars>>

\* mount(NULL, tmpdir, "tmpfs", 0, "size=16777216"), then the range-for of the
\* mount pass begins
MountTmpdir ==
    /\ pc = "mount_tmpdir"
    /\ \E ok \in BOOLEAN :
          /\ calls' = Append(calls, Call("mount", 0, NULL, tmpdir, {}, Res(ok)))
          /\ IF ~ok THEN pc' = "done" /\ ret' = "false"
             ELSE /\ pc' = IF Len(mountpts) = 0 THEN "umount_tmpdir" ELSE "mount_pass"
                  /\ ret' = ret
          /\ idx' = 1
    /\ UNCHANGED <<cfgVars, destdir, tmpdir, df_counter, tmpfiles, cgVars, extVars>>

\* the mount pass returning false for every failed descriptor
MountPassAborts_all(r, p) == ~r

\* the mount pass never returning false
MountPassAborts_never(r, p) == FALSE

\* if (!mountPt(&p, ...) && p.is_mandatory) return false;
MountPassAborts(r, p) == ~r /\ p.is_mandatory

\* one iteration of: for (auto& p : nsjconf->mountpts) { mountPt(&p, ...) };
\* `fps`: the system calls of mountPt that may fail
MountPassIn(fps) ==
    /\ pc = "mount_pass"
    /\ \E fp \in fps :
          LET r == mountPt(mountpts[idx], idx, destdir, tmpdir, df_counter,
                           tmpfiles, fp)
          IN  /\ mountpts' = [mountpts EXCEPT ![idx] = r.mpt]
              /\ df_counter' = r.counter
              /\ tmpfiles' = r.files
              /\ calls' = calls \o r.calls
              /\ IF MountPassAborts(r.ret, mountpts[idx])
                 THEN pc' = "done" /\ ret' = "false" /\ idx' = idx
                 ELSE /\ ret' = ret
                      /\ IF idx = Len(mountpts)
                         THEN pc' = "umount_tmpdir" /\ idx' = idx
                         ELSE pc' = "mount_pass" /\ idx' = idx + 1
    /\ UNCHANGED <<clone_newns, chroot, env, dirs, add_ret, destdir, tmpdir, cgVars, extVars>>

MountPass == MountPassIn(MountPtFailPoints)

\* umount2(tmpdir, MNT_DETACH)
UmountTmpdir == Fatal("umount_tmpdir", "umount2", "", tmpdir, {}, "pivot_root")

\* pivot_root with its result not checked
PivotRoot_unchecked ==
    Unchecked("pivot_root", "pivot_root", destdir, destdir, {}, "umount_root")

\* syscall(__NR_pivot_root, destdir, destdir)
PivotRoot == Fatal("pivot_root", "pivot_root", destdir, destdir, {}, "umount_root")

\* umount2("/", MNT_DETACH)
UmountRoot == Fatal("umount_root", "umount2", "", "/", {}, "chdir_cwd")

\* nsjconf->cwd of the modelled run
Cwd == "/cwd"

\* chdir(nsjconf->cwd), then the range-for of the read-only pass begins
ChdirCwd ==
    /\ pc = "chdir_cwd"
    /\ \E ok \in BOOLEAN :
          /\ calls' = Append(calls, Call("chdir", 0, "", Cwd, {}, Res(ok)))
          /\ IF ~ok THEN pc' = "done" /\ ret' = "false"
             ELSE IF Len(mountpts) = 0 THEN pc' = "done" /\ ret' = "true"
             ELSE pc' = "remount_pass" /\ ret' = ret
          /\ idx' = 1
    /\ UNCHANGED <<cfgVars, destdir, tmpdir, df_counter, tmpfiles, cgVars, extVars>>

\* the read-only pass never returning false
RemountPassAborts_never(r, p) == FALSE

\* if (!remountRO(p) && p.is_mandatory) return false;
RemountPassAborts(r, p) == ~r /\ p.is_mandatory

\* what statvfs reports in f_flag in the runs of Spec
VfsWorlds == { {ST_NOSUID} }

\* one iteration of: for (const auto& p : nsjconf->mountpts) { remountRO(p) };
\* after the last one: return true.  `worlds`: what statvfs may report.
RemountPassIn(worlds) ==
    /\ pc = "remount_pass"
    /\ \E fp \in RemountFailPoints, f_flag \in worlds :
          LET r == remountRO(mountpts[idx], idx, f_flag, fp)
          IN  /\ calls' = calls \o r.calls
              /\ IF RemountPassAborts(r.ret, mountpts[idx])
                 THEN pc' = "done" /\ ret' = "false" /\ idx' = idx
                 ELSE IF idx = Len(mountpts)
                 THEN pc' = "done" /\ ret' = "true" /\ idx' = idx
                 ELSE pc' = "remount_pass" /\ ret' = ret /\ idx' = idx + 1
    /\ UNCHANGED <<cfgVars, destdir, tmpdir, df_counter, tmpfiles, cgVars, extVars>>

RemountPass == RemountPassIn(VfsWorlds)

-----------------------------------------------------------------------------
(* cgroup.cc: number formatting *)

Digits == <<"0", "1", "2", "3", "4", "5", "6", "7", "8", "9",
            "a", "b", "c", "d", "e", "f">>

\* snprintf("%x", n)
RECURSIVE HexStr(_)
HexStr(n) ==
    IF n < 16 THEN Digits[n + 1]
    ELSE HexStr(n \div 16) \o Digits[(n % 16) + 1]

\* an unsigned 32-bit value as two 16-bit halves <<hi, lo>>: hi * 2^16 + lo
Half == 256 * 256

\* snprintf("%u", v) of the 32-bit value v = <<hi, lo>>, by long division by 10
RECURSIVE U32Str(_)
U32Str(v) ==
    LET qh == v[1] \div 10
        rl == (v[1] % 10) * Half + v[2]
        q  == <<qh, rl \div 10>>
    IN  IF q = <<0, 0>> THEN Digits[(rl % 10) + 1]
        ELSE U32Str(q) \o Digits[(rl % 10) + 1]

\* nsjconf->cgroup_cpu_ms_per_sec * 1000U in unsigned 32-bit arithmetic
CpuQuota(limit) ==
    LET lo == (limit % Half) * 1000
        hi == (limit \div Half) * 1000 + (lo \div Half)
    IN  <<hi % Half, lo % Half>>

-----------------------------------------------------------------------------
(* flagsToStr: the rendering of a mount-flag mask *)

\* the table mountFlags of flagsToStr: NS_VALSTR_STRUCT(x) is { x, #x }; the
\* masks are those of <sys/mount.h>
mountFlags ==
    << [flag |-> 1, name |-> "MS_RDONLY"],
       [flag |-> 2, name |-> "MS_NOSUID"],
       [flag |-> 4, name |-> "MS_NODEV"],
       [flag |-> 8, name |-> "MS_NOEXEC"],
       [flag |-> 16, name |-> "MS_SYNCHRONOUS"],
       [flag |-> 32, name |-> "MS_REMOUNT"],
       [flag |-> 64, name |-> "MS_MANDLOCK"],
       [flag |-> 128, name |-> "MS_DIRSYNC"],
       [flag |-> 1024, name |-> "MS_NOATIME"],
       [flag |-> 2048, name |-> "MS_NODIRATIME"],
       [flag |-> 4096, name |-> "MS_BIND"],
       [flag |-> 8192, name |-> "MS_MOVE"],
       [flag |-> 16384, name |-> "MS_REC"],
       [flag |-> 32768, name |-> "MS_SILENT"],
       [flag |-> 65536, name |-> "MS_POSIXACL"],
       [flag |-> 131072, name |-> "MS_UNBINDABLE"],
       [flag |-> 262144, name |-> "MS_PRIVATE"],
       [flag |-> 524288, name |-> "MS_SLAVE"],
       [flag |-> 1048576, name |-> "MS_SHARED"],
       [flag |-> 2097152, name |-> "MS_RELATIME"],
       [flag |-> 4194304, name |-> "MS_KERNMOUNT"],
       [flag |-> 8388608, name |-> "MS_I_VERSION"],
       [flag |-> 16777216, name |-> "MS_STRICTATIME"],
       [flag |-> 33554432, name |-> "MS_LAZYTIME"] >>

\* flags & bit, for a single-bit mask `bit`
HasBit(flags, bit) == (flags \div bit) % 2 = 1

\* The string under construction is kept as the sequence of the pieces
\* appended to it; the separator "|" is a piece of its own, one character long.

\* the loop over mountFlags from entry k on: res.append(i.name);
\* res.append("|") for each entry whose bit is set
RECURSIVE AppendNames(_, _, _)
AppendNames(flags, k, res) ==
    IF k > Len(mountFlags) THEN res
    ELSE IF HasBit(flags, mountFlags[k].flag)
    THEN AppendNames(flags, k + 1, res \o <<mountFlags[k].name, "|">>)
    ELSE AppendNames(flags, k + 1, res)

\* flags & ~knownFlagMask: the entries of the table are distinct single bits
RECURSIVE ClearKnown(_, _)
ClearKnown(flags, k) ==
    IF k > Len(mountFlags) THEN flags
    ELSE IF HasBit(flags, mountFlags[k].flag)
    THEN ClearKnown(flags - mountFlags[k].flag, k + 1)
    ELSE ClearKnown(flags, k + 1)

\* util::StrAppend(&res, "%#tx", v): "0x" and the hexadecimal digits; for 0
\* the alternate form prints "0" alone
HexToken(v) == IF v = 0 THEN "0" ELSE "0x" \o HexStr(v)

\* the trailing separator left in place
PopBack_keep(res) == res

\* res.pop_back(): the last character, here always the separator piece
PopBack(res) == SubSeq(res, 1, Len(res) - 1)

\* flagsToStr(flags)
flagsToStr(flags) ==
    LET res == AppendNames(flags, 1, <<>>)
        unknown == ClearKnown(flags, 1)
    IN  IF unknown = 0 /\ res # <<>> THEN PopBack(res)
        ELSE Append(res, HexToken(unknown))

\* a call of flagsToStr
FlagsToStr(inputs) ==
    /\ \E f \in inputs :
          /\ fl_flags' = f
          /\ fl_str' = flagsToStr(f)
    /\ UNCHANGED <<mntVars, cgVars, adds, saVars>>

-----------------------------------------------------------------------------
(* cgroup.cc: initNsFromParent and finishFromParent *)

Controllers == <<"memory", "pids", "net_cls", "cpu">>

\* "<mount>/<parent>/NSJAIL.<pid>" of a controller
GroupPath(ctl, pid) == ctl \o "/NSJAIL." \o ToString(pid)

CgCall(op, ctl, path, data, res) ==
    [op |-> op, ctl |-> ctl, path |-> path, data |-> data, res |-> res]

\* the steps of an install whose failure the code acts on: the mkdir, or the
\* write of the named control file
CgFailPoints ==
    {"none", "mkdir", "memory.limit_in_bytes", "memory.oom_control", "pids.max",
     "net_cls.classid", "cpu.cfs_quota_us", "cpu.cfs_period_us", "tasks"}

\* The body shared by the four initNsFromParent<Ctl> functions after the
\* zero-limit test: mkdir(path, 0700) accepting EEXIST, then writeBufToFile for
\* each of `writes` in order, returning false at the first failure.
\* d: the group directories that exist, f: the control-file contents,
\* fp: the step that fails.  Result: ret, calls, dirs, files.
InstallGroup(ctl, pid, writes, fp, d, f) ==
    LET path == GroupPath(ctl, pid)
        mk == IF fp = "mkdir" THEN "fail" ELSE IF ctl \in d THEN "EEXIST" ELSE "ok"
        cMk == CgCall("mkdir", ctl, path, "", mk)
        bad == {k \in 1..Len(writes) : writes[k].file = fp}
        n == IF bad = {} THEN Len(writes) ELSE CHOOSE k \in bad : TRUE
        done == IF bad = {} THEN 1..n ELSE 1..(n - 1)
        cW(k) == CgCall("write", ctl, path \o "/" \o writes[k].file, writes[k].data,
                        Res(k \in done))
    IN  IF mk = "fail"
        THEN [ret |-> FALSE, calls |-> <<cMk>>, dirs |-> d, files |-> f]
        ELSE [ret |-> bad = {},
              calls |-> <<cMk>> \o [k \in 1..n |-> cW(k)],
              dirs |-> d \cup {ctl},
              files |-> [x \in DOMAIN f |->
                           IF \E k \in done : x = <<ctl, writes[k].file>>
                           THEN writes[CHOOSE k \in done : x = <<ctl, writes[k].file>>].data
                           ELSE f[x]]]

Skip(d, f) == [ret |-> TRUE, calls |-> <<>>, dirs |-> d, files |-> f]

W(file, data) == [file |-> file, data |-> data]

\* the memory install with the pid enrolled before the limits are written
initNsFromParentMem_tasksFirst(conf, fp, d, f) ==
    IF conf.mem_max = 0 THEN Skip(d, f)
    ELSE InstallGroup("memory", conf.pid,
            << W("tasks", ToString(conf.pid)),
               W("memory.limit_in_bytes", ToString(conf.mem_max)),
               W("memory.oom_control", "0") >>, fp, d, f)

initNsFromParentMem(conf, fp, d, f) ==
    IF conf.mem_max = 0 THEN Skip(d, f)
    ELSE InstallGroup("memory", conf.pid,
            << W("memory.limit_in_bytes", ToString(conf.mem_max)),
               W("memory.oom_control", "0"),
               W("tasks", ToString(conf.pid)) >>, fp, d, f)

initNsFromParentPids(conf, fp, d, f) ==
    IF conf.pids_max = 0 THEN Skip(d, f)
    ELSE InstallGroup("pids", conf.pid,
            << W("pids.max", ToString(conf.pids_max)),
               W("tasks", ToString(conf.pid)) >>, fp, d, f)

\* the net_cls install with the class id formatted with "%u"
initNsFromParentNetCls_decimal(conf, fp, d, f) ==
    IF conf.net_cls_classid = 0 THEN Skip(d, f)
    ELSE InstallGroup("net_cls", conf.pid,
            << W("net_cls.classid", ToString(conf.net_cls_classid)),
               W("tasks", ToString(conf.pid)) >>, fp, d, f)

initNsFromParentNetCls(conf, fp, d, f) ==
    IF conf.net_cls_classid = 0 THEN Skip(d, f)
    ELSE InstallGroup("net_cls", conf.pid,
            << W("net_cls.classid", "0x" \o HexStr(conf.net_cls_classid)),
               W("tasks", ToString(conf.pid)) >>, fp, d, f)

\* the cpu install without the zero-limit test
initNsFromParentCpu_noZeroTest(conf, fp, d, f) ==
    InstallGroup("cpu", conf.pid,
            << W("cpu.cfs_quota_us", U32Str(CpuQuota(conf.cpu_ms_per_sec))),
               W("cpu.cfs_period_us", "1000000"),
               W("tasks", ToString(conf.pid)) >>, fp, d, f)

initNsFromParentCpu(conf, fp, d, f) ==
    IF conf.cpu_ms_per_sec = 0 THEN Skip(d, f)
    ELSE InstallGroup("cpu", conf.pid,
            << W("cpu.cfs_quota_us", U32Str(CpuQuota(conf.cpu_ms_per_sec))),
               W("cpu.cfs_period_us", "1000000"),
               W("tasks", ToString(conf.pid)) >>, fp, d, f)

\* one `if (!initNsFromParent<Ctl>(nsjconf, pid)) return false;` of
\* initNsFromParent, at position `here`, followed by position `next`
\* ("returned": return true)
InstallStep(here, r, next) ==
    /\ cg_pc = here
    /\ cg_calls' = cg_calls \o r.calls
    /\ cg_dirs' = r.dirs
    /\ cg_files' = r.files
    /\ IF ~r.ret THEN cg_pc' = "returned" /\ cg_ret' = "false"
       ELSE IF next = "returned" THEN cg_pc' = "returned" /\ cg_ret' = "true"
       ELSE cg_pc' = next /\ cg_ret' = cg_ret
    /\ UNCHANGED <<cg_conf, mntVars, extVars>>

\* the same step with the controller's result not checked
InstallStep_unchecked(here, r, next) ==
    /\ cg_pc = here
    /\ cg_calls' = cg_calls \o r.calls
    /\ cg_dirs' = r.dirs
    /\ cg_files' = r.files
    /\ IF next = "returned" THEN cg_pc' = "returned" /\ cg_ret' = "true"
       ELSE cg_pc' = next /\ cg_ret' = cg_ret
    /\ UNCHANGED <<cg_conf, mntVars, extVars>>

InitMem ==
    \E fp \in CgFailPoints :
        InstallStep("init_mem", initNsFromParentMem(cg_conf, fp, cg_dirs, cg_files),
                    "init_pids")

InitPids_unchecked ==
    \E fp \in CgFailPoints :
        InstallStep_unchecked("init_pids",
                    initNsFromParentPids(cg_conf, fp, cg_dirs, cg_files),
                    "init_net_cls")

InitPids ==
    \E fp \in CgFailPoints :
        InstallStep("init_pids", initNsFromParentPids(cg_conf, fp, cg_dirs, cg_files),
                    "init_net_cls")

InitNetCls ==
    \E fp \in CgFailPoints :
        InstallStep("init_net_cls",
                    initNsFromParentNetCls(cg_conf, fp, cg_dirs, cg_files),
                    "init_cpu")

InitCpu ==
    \E fp \in CgFailPoints :
        InstallStep("init_cpu", initNsFromParentCpu(cg_conf, fp, cg_dirs, cg_files),
                    "returned")

\* finishFromParent<Ctl>: rmdir of the group directory unless the limit is 0;
\* a failure is logged only.  rmdir of a missing directory fails.
FinishStep(here, ctl, limit, next) ==
    /\ cg_pc = here
    /\ IF limit = 0
       THEN UNCHANGED <<cg_calls, cg_dirs>>
       ELSE \E ok \in (IF ctl \in cg_dirs THEN BOOLEAN ELSE {FALSE}) :
               /\ cg_calls' = Append(cg_calls,
                     CgCall("rmdir", ctl, GroupPath(ctl, cg_conf.pid), "", Res(ok)))
               /\ cg_dirs' = IF ok THEN cg_dirs \ {ctl} ELSE cg_dirs
    /\ cg_pc' = next
    /\ UNCHANGED <<cg_conf, cg_files, cg_ret, mntVars, extVars>>

\* the same step giving up the clean-up when the rmdir fails
FinishStep_stopOnFail(here, ctl, limit, next) ==
    /\ cg_pc = here
    /\ IF limit = 0
       THEN cg_pc' = next /\ UNCHANGED <<cg_calls, cg_dirs>>
       ELSE \E ok \in (IF ctl \in cg_dirs THEN BOOLEAN ELSE {FALSE}) :
               /\ cg_calls' = Append(cg_calls,
                     CgCall("rmdir", ctl, GroupPath(ctl, cg_conf.pid), "", Res(ok)))
               /\ cg_dirs' = IF ok THEN cg_dirs \ {ctl} ELSE cg_dirs
               /\ cg_pc' = IF ok THEN next ELSE "finished"
    /\ UNCHANGED <<cg_conf, cg_files, cg_ret, mntVars, extVars>>

FinishMem_stopOnFail ==
    FinishStep_stopOnFail("returned", "memory", cg_conf.mem_max, "finish_pids")

\* finishFromParent(nsjconf, pid), called after initNsFromParent has returned
FinishMem == FinishStep("returned", "memory", cg_conf.mem_max, "finish_pids")
FinishPids == FinishStep("finish_pids", "pids", cg_conf.pids_max, "finish_net_cls")
FinishNetCls ==
    FinishStep("finish_net_cls", "net_cls", cg_conf.net_cls_classid, "finish_cpu")
FinishCpu == FinishStep("finish_cpu", "cpu", cg_conf.cpu_ms_per_sec, "finished")

-----------------------------------------------------------------------------
(* Specifications *)

CtlSet == {Controllers[k] : k \in 1..Len(Controllers)}

CgFiles ==
    {<<"memory", "memory.limit_in_bytes">>, <<"memory", "memory.oom_control">>,
     <<"memory", "tasks">>, <<"pids", "pids.max">>, <<"pids", "tasks">>,
     <<"net_cls", "net_cls.classid">>, <<"net_cls", "tasks">>,
     <<"cpu", "cpu.cfs_quota_us">>, <<"cpu", "cpu.cfs_period_us">>, <<"cpu", "tasks">>}

\* the cgroup part at rest (specification Spec does not run it)
CgIdle ==
    /\ cg_conf = [mem_max |-> 0, pids_max |-> 0, net_cls_classid |-> 0,
                  cpu_ms_per_sec |-> 0, pid |-> 1234]
    /\ cg_pc = "idle"
    /\ cg_dirs = {}
    /\ cg_files = [x \in CgFiles |-> ""]
    /\ cg_calls = <<>>
    /\ cg_ret = "none"

\* no flagsToStr call made
FmtIdle ==
    /\ fl_flags = NoFlags
    /\ fl_str = ""

\* initNs not in MODE_STANDALONE_EXECVE: no sub-child
SaIdle ==
    /\ mode = MODE_STANDALONE_ONCE
    /\ ppc = "idle"
    /\ init_ret = "none"
    /\ child = "none"
    /\ wstatus = NoStatus
    /\ werr = "none"

\* the mount part at rest (specification SpecCgroup does not run it)
MntIdle ==
    /\ mountpts = <<>>
    /\ clone_newns = TRUE
    /\ chroot = ""
    /\ env = {}
    /\ dirs = {}
    /\ add_ret = "none"
    /\ pc = "idle"
    /\ idx = 1
    /\ destdir = NULL
    /\ tmpdir = NULL
    /\ df_counter = 0
    /\ tmpfiles = {}
    /\ calls = <<>>
    /\ ret = "none"
    /\ adds = <<>>
    /\ SaIdle

\* Spec: a configuration is built with the adds, then mnt::initNs runs once
Init ==
    /\ mountpts = <<>>
    /\ clone_newns \in BOOLEAN
    /\ chroot \in {"", "/chroot"}
    /\ env = {}
    /\ dirs = {"/s"}
    /\ add_ret = "none"
    /\ pc = "config"
    /\ idx = 1
    /\ destdir = NULL
    /\ tmpdir = NULL
    /\ df_counter = 0
    /\ tmpfiles = {}
    /\ calls = <<>>
    /\ ret = "none"
    /\ adds = <<>>
    /\ SaIdle
    /\ CgIdle
    /\ FmtIdle

Next ==
    \/ \E a \in AddArgs : addMountPtHead(a) /\ UNCHANGED adds
    \/ \E a \in AddArgs : addMountPtTail(a) /\ UNCHANGED adds
    \/ initNs
    \/ Enter
    \/ Chroot
    \/ ChrootChdir
    \/ ChdirRoot
    \/ GetDirRoot
    \/ MountPrivate
    \/ MountDestdir
    \/ GetDirTmp
    \/ MountTmpdir
    \/ MountPass
    \/ UmountTmpdir
    \/ PivotRoot
    \/ UmountRoot
    \/ ChdirCwd
    \/ RemountPass

Spec == Init /\ [][Next]_vars

\* SpecCgroup: initNsFromParent(nsjconf, pid) followed by finishFromParent
CgLimits ==
    [mem_max : {0, 67108864}, pids_max : {0, 5}, net_cls_classid : {0, 1048577},
     cpu_ms_per_sec : {0, 250, 4294968}, pid : {1234}]

InitCgroup ==
    /\ MntIdle
    /\ FmtIdle
    /\ cg_conf \in CgLimits
    /\ cg_pc = "init_mem"
    /\ cg_dirs \in SUBSET {"memory", "cpu"}
    /\ cg_files = [x \in CgFiles |-> ""]
    /\ cg_calls = <<>>
    /\ cg_ret = "none"

NextCgroup ==
    \/ InitMem
    \/ InitPids
    \/ InitNetCls
    \/ InitCpu
    \/ FinishMem
    \/ FinishPids
    \/ FinishNetCls
    \/ FinishCpu

SpecCgroup == InitCgroup /\ [][NextCgroup]_vars

\* SpecStandalone: a configuration is built, then mnt::initNs runs once in
\* MODE_STANDALONE_EXECVE
SaArgs == {a \in AddArgs : a.flags = {MS_RDONLY} /\ a.src_content = "" /\ ~a.is_symlink}

InitStandalone ==
    /\ mountpts = <<>>
    /\ clone_newns \in BOOLEAN
    /\ chroot = "/chroot"
    /\ env = {}
    /\ dirs = {"/s"}
    /\ add_ret = "none"
    /\ pc = "config"
    /\ idx = 1
    /\ destdir = NULL
    /\ tmpdir = NULL
    /\ df_counter = 0
    /\ tmpfiles = {}
    /\ calls = <<>>
    /\ ret = "none"
    /\ adds = <<>>
    /\ mode = MODE_STANDALONE_EXECVE
    /\ ppc = "call"
    /\ init_ret = "none"
    /\ child = "none"
    /\ wstatus = NoStatus
    /\ werr = "none"
    /\ CgIdle
    /\ FmtIdle

NextStandalone ==
    \/ \E a \in SaArgs : addMountPtTail(a) /\ UNCHANGED adds
    \/ CloneProc
    \/ Enter
    \/ Chroot
    \/ ChrootChdir
    \/ ChdirRoot
    \/ GetDirRoot
    \/ MountPrivate
    \/ MountDestdir
    \/ GetDirTmp
    \/ MountTmpdir
    \/ MountPass
    \/ UmountTmpdir
    \/ PivotRoot
    \/ UmountRoot
    \/ ChdirCwd
    \/ RemountPass
    \/ ChildExit
    \/ ChildKilled
    \/ WaitSubChild
    \/ LoopTest

SpecStandalone == InitStandalone /\ [][NextStandalone]_vars

\* SpecWait: the same run with every return of wait4: the pid, an
\* interruption, no child.  The system keeps taking steps while it can.
NextWait ==
    \/ \E a \in SaArgs : addMountPtTail(a) /\ UNCHANGED adds
    \/ CloneProc
    \/ Enter
    \/ Chroot
    \/ ChrootChdir
    \/ ChdirRoot
    \/ GetDirRoot
    \/ MountPrivate
    \/ MountDestdir
    \/ GetDirTmp
    \/ MountTmpdir
    \/ MountPass
    \/ UmountTmpdir
    \/ PivotRoot
    \/ UmountRoot
    \/ ChdirCwd
    \/ RemountPass
    \/ ChildExit
    \/ ChildKilled
    \/ WaitSubChild
    \/ LoopTest
    \/ WaitInterrupted
    \/ ReapedElsewhere
    \/ WaitNoChild

SpecWait == InitStandalone /\ [][NextWait]_vars /\ WF_vars(NextWait)

\* SpecOrder: head and tail adds with source and destination variables, set
\* ("S", "D") and unset ("U"), then mnt::initNs on the full path
OrderArgs ==
    {a \in [src : {"/s"}, dst : {"/d"}, fstype : {""}, options : {""},
            flags : {{MS_RDONLY}}, is_dir : {NS_DIR_MAYBE},
            is_mandatory : {TRUE}, src_env : {"", "S", "U"},
            dst_env : {"", "D", "U"}, src_content : {""}, is_symlink : {FALSE}] :
        /\ a.src_env = "U" => a.dst_env = ""
        /\ a.dst_env = "U" => a.src_env = ""}

InitOrder ==
    /\ mountpts = <<>>
    /\ clone_newns = TRUE
    /\ chroot = "/chroot"
    /\ env = {<<"S", "/es">>, <<"D", "/ed">>}
    /\ dirs = {"/s", "/es/s"}
    /\ add_ret = "none"
    /\ pc = "config"
    /\ idx = 1
    /\ destdir = NULL
    /\ tmpdir = NULL
    /\ df_counter = 0
    /\ tmpfiles = {}
    /\ calls = <<>>
    /\ ret = "none"
    /\ adds = <<>>
    /\ SaIdle
    /\ CgIdle
    /\ FmtIdle

NextOrder ==
    \/ \E a \in OrderArgs : addMountPtHead(a) /\ LogAdd("head", a)
    \/ \E a \in OrderArgs : addMountPtTail(a) /\ LogAdd("tail", a)
    \/ initNs
    \/ Enter
    \/ ChdirRoot
    \/ GetDirRoot
    \/ MountPrivate
    \/ MountDestdir
    \/ GetDirTmp
    \/ MountTmpdir
    \/ MountPass
    \/ UmountTmpdir
    \/ PivotRoot
    \/ UmountRoot
    \/ ChdirCwd
    \/ RemountPass

SpecOrder == InitOrder /\ [][NextOrder]_vars

\* SpecRemount: mnt::initNs on the full path over file systems that report
\* different f_flag sets to statvfs
RemountArgs == {a \in AddArgs : a.src_content = ""}

RemountWorlds ==
    { {},
      {ST_RDONLY, ST_NOSUID, ST_NODEV, ST_NOEXEC, ST_IMMUTABLE},
      {ST_SYNCHRONOUS, ST_MANDLOCK, ST_NOATIME, ST_NODIRATIME, ST_RELATIME} }

InitRemount ==
    /\ mountpts = <<>>
    /\ clone_newns = TRUE
    /\ chroot = "/chroot"
    /\ env = {}
    /\ dirs = {"/s"}
    /\ add_ret = "none"
    /\ pc = "config"
    /\ idx = 1
    /\ destdir = NULL
    /\ tmpdir = NULL
    /\ df_counter = 0
    /\ tmpfiles = {}
    /\ calls = <<>>
    /\ ret = "none"
    /\ adds = <<>>
    /\ SaIdle
    /\ CgIdle
    /\ FmtIdle

NextRemount ==
    \/ \E a \in RemountArgs : addMountPtTail(a) /\ UNCHANGED adds
    \/ initNs
    \/ Enter
    \/ ChdirRoot
    \/ GetDirRoot
    \/ MountPrivate
    \/ MountDestdir
    \/ GetDirTmp
    \/ MountTmpdir
    \/ MountPass
    \/ UmountTmpdir
    \/ PivotRoot
    \/ UmountRoot
    \/ ChdirCwd
    \/ RemountPassIn(RemountWorlds)

SpecRemount == InitRemount /\ [][NextRemount]_vars

\* SpecFinalize: the adds over every combination of is_dir, source content,
\* source, source variable and bind flag
MaxAdds == 1

FinalizeArgs ==
    [src : {"", "/dir", "/file"}, dst : {"/d"}, fstype : {""}, options : {""},
     flags : {{}, {MS_BIND}}, is_dir : {NS_DIR_YES, NS_DIR_NO, NS_DIR_MAYBE},
     is_mandatory : {TRUE}, src_env : {"", "S"}, dst_env : {""},
     src_content : {"", "c"}, is_symlink : {FALSE}]

InitFinalize ==
    /\ mountpts = <<>>
    /\ clone_newns = TRUE
    /\ chroot = ""
    /\ env = {<<"S", "/es">>}
    /\ dirs = {"/dir", "/es", "/es/dir"}
    /\ add_ret = "none"
    /\ pc = "config"
    /\ idx = 1
    /\ destdir = NULL
    /\ tmpdir = NULL
    /\ df_counter = 0
    /\ tmpfiles = {}
    /\ calls = <<>>
    /\ ret = "none"
    /\ adds = <<>>
    /\ SaIdle
    /\ CgIdle
    /\ FmtIdle

NextFinalize ==
    \/ \E a \in FinalizeArgs :
          Len(adds) < MaxAdds /\ addMountPtHead(a) /\ LogAdd("head", a)
    \/ \E a \in FinalizeArgs :
          Len(adds) < MaxAdds /\ addMountPtTail(a) /\ LogAdd("tail", a)

SpecFinalize == InitFinalize /\ [][NextFinalize]_vars

\* SpecStaging: mnt::initNs on the full path over descriptors with and without
\* source content, where the unlink of a staged file may fail as well
StagingArgs == {a \in AddArgs : a.flags = {} /\ ~a.is_symlink}

StagingFailPoints == MountPtFailPoints \cup {"unlink"}

InitStaging ==
    /\ mountpts = <<>>
    /\ clone_newns = TRUE
    /\ chroot = "/chroot"
    /\ env = {}
    /\ dirs = {"/s"}
    /\ add_ret = "none"
    /\ pc = "config"
    /\ idx = 1
    /\ destdir = NULL
    /\ tmpdir = NULL
    /\ df_counter = 0
    /\ tmpfiles = {}
    /\ calls = <<>>
    /\ ret = "none"
    /\ adds = <<>>
    /\ SaIdle
    /\ CgIdle
    /\ FmtIdle

NextStaging ==
    \/ \E a \in StagingArgs : addMountPtTail(a) /\ UNCHANGED adds
    \/ initNs
    \/ Enter
    \/ ChdirRoot
    \/ GetDirRoot
    \/ MountPrivate
    \/ MountDestdir
    \/ GetDirTmp
    \/ MountTmpdir
    \/ MountPassIn(StagingFailPoints)
    \/ UmountTmpdir
    \/ PivotRoot
    \/ UmountRoot
    \/ ChdirCwd
    \/ RemountPass

SpecStaging == InitStaging /\ [][NextStaging]_vars

\* SpecFlags: flagsToStr over the empty mask, masks of known flags, masks of
\* unknown bits (256, 512, 2^26) and mixed masks
RECURSIVE SumOf(_)
SumOf(S) == IF S = {} THEN 0 ELSE LET x == CHOOSE y \in S : TRUE IN x + SumOf(S \ {x})

FlagInputs ==
    {SumOf(S) : S \in SUBSET {1, 32, 4096, 2097152, 33554432, 256, 512, 67108864}}
    \cup {mountFlags[k].flag : k \in 1..Len(mountFlags)}
    \cup {SumOf({mountFlags[k].flag : k \in 1..Len(mountFlags)})}

InitFlags ==
    /\ MntIdle
    /\ CgIdle
    /\ FmtIdle

NextFlags == FlagsToStr(FlagInputs)

SpecFlags == InitFlags /\ [][NextFlags]_vars

-----------------------------------------------------------------------------
(* Properties of mnt::initNs *)

Descs == 1..Len(mountpts)
Calls == 1..Len(calls)

\* the calls of initNsInternal itself (not made for a descriptor), as <<op, dst>>
SetupCalls ==
    LET own == SelectSeq(calls, LAMBDA c : c.mpt = 0)
    IN  [k \in 1..Len(own) |-> <<own[k].op, own[k].dst>>]

\* the ten steps of the full path, in the order of the code
FullPathSteps ==
    << <<"chdir", "/">>, <<"getDir", destdir>>, <<"mount", "/">>,
       <<"mount", destdir>>, <<"getDir", tmpdir>>, <<"mount", tmpdir>>,
       <<"umount2", tmpdir>>, <<"pivot_root", destdir>>, <<"umount2", "/">>,
       <<"chdir", Cwd>> >>

\* call k is a kernel mount call of the mount pass for descriptor i
IsPassMount(k, i) ==
    calls[k].op = "mount" /\ calls[k].mpt = i /\ MS_REMOUNT \notin calls[k].flags

\* call k is the re-mount call of the read-only pass for descriptor i
IsRemount(k, i) ==
    calls[k].op = "mount" /\ calls[k].mpt = i /\ MS_REMOUNT \in calls[k].flags

\* call k belongs to the application of descriptor i in the mount pass
IsApplyCall(k, i) ==
    /\ calls[k].mpt = i
    /\ \/ calls[k].op \in {"createDirRecursively", "symlink", "mkdir", "open",
                           "open_staged", "write_staged", "unlink"}
       \/ IsPassMount(k, i)

\* the mount pass has applied descriptor i / applying it failed
Applied(i) == \E k \in Calls : IsApplyCall(k, i)
ApplyFailed(i) == \E k \in Calls : IsApplyCall(k, i) /\ calls[k].res = "fail"

\* C1: on the full path initNs returns true only if the ten steps chdir("/"),
\* getDir "root", recursive-private remount of "/", tmpfs on destdir, getDir
\* "tmp", tmpfs on tmpdir, lazy detach of tmpdir, pivot_root, lazy detach of
\* "/" and chdir(cwd) all succeeded, in that order; a failed step is the last
\* call ever issued and makes initNs return false.
C1_FailClosed ==
    clone_newns =>
        /\ ret = "true" =>
              /\ SetupCalls = FullPathSteps
              /\ \A k \in Calls : calls[k].mpt = 0 => calls[k].res = "ok"
        /\ SetupCalls = SubSeq(FullPathSteps, 1, Len(SetupCalls))
        /\ \A k \in Calls :
              calls[k].mpt = 0 /\ calls[k].res = "fail" =>
                  k = Len(calls) /\ pc = "done" /\ ret = "false"

\* C1 witness: pivot_root failed after a read-only descriptor had been mounted;
\* initNs returned false and nothing was re-mounted
C1_Witness ==
    /\ clone_newns /\ pc = "done" /\ ret = "false"
    /\ Len(calls) > 0
    /\ calls[Len(calls)].op = "pivot_root" /\ calls[Len(calls)].res = "fail"
    /\ \E i \in Descs : mountpts[i].mounted /\ MS_RDONLY \in mountpts[i].flags

\* the descriptors in the order the mount pass began applying them
ApplyOrder ==
    LET first == SelectSeq(calls, LAMBDA c : c.op = "createDirRecursively")
    IN  [k \in 1..Len(first) |-> first[k].mpt]

AfterMountPass ==
    \/ pc \in {"umount_tmpdir", "pivot_root", "umount_root", "chdir_cwd",
               "remount_pass"}
    \/ pc = "done" /\ ret = "true" /\ clone_newns

\* C2: the mount pass applies the descriptors in sequence order; a failed
\* mandatory descriptor makes initNs return false at once (its failed call is
\* the last call issued: no later descriptor, no pivot_root); a failed
\* non-mandatory descriptor keeps mounted = false, the later descriptors are
\* still applied, and initNs returns false only right after the failure of a
\* step of its own or of a mandatory descriptor.
C2_MountPass ==
    /\ ApplyOrder = [k \in 1..Len(ApplyOrder) |-> k]
    /\ \A i \in Descs :
          ApplyFailed(i) /\ mountpts[i].is_mandatory =>
              /\ pc = "done" /\ ret = "false"
              /\ IsApplyCall(Len(calls), i) /\ calls[Len(calls)].res = "fail"
    /\ \A i \in Descs :
          ApplyFailed(i) /\ ~mountpts[i].is_mandatory => ~mountpts[i].mounted
    /\ AfterMountPass => \A i \in Descs : Applied(i)
    /\ (clone_newns /\ ret = "false") =>
          /\ Len(calls) > 0
          /\ calls[Len(calls)].res = "fail"
          /\ calls[Len(calls)].mpt # 0 =>
                mountpts[calls[Len(calls)].mpt].is_mandatory

\* C2 witness: the first descriptor is non-mandatory and its mount failed, the
\* second was applied after it, and initNs returned true
C2_Witness ==
    /\ Len(mountpts) >= 2
    /\ ~mountpts[1].is_mandatory /\ ~mountpts[1].is_symlink
    /\ ApplyFailed(1) /\ Applied(2)
    /\ pc = "done" /\ ret = "true"

\* the kernel mount of descriptor i succeeded in the mount pass
MountOk(i) == \E k \in Calls : IsPassMount(k, i) /\ calls[k].res = "ok"

\* the symbolic link of descriptor i was created
SymlinkOk(i) ==
    \E k \in Calls : calls[k].op = "symlink" /\ calls[k].mpt = i /\ calls[k].res = "ok"

FullPathTrue == clone_newns /\ pc = "done" /\ ret = "true"

\* C3 as stated: after initNs returned true on the full path every descriptor,
\* symlink descriptors included, has mounted = true or is non-mandatory and
\* failed to apply.
C3_Original ==
    FullPathTrue =>
        \A i \in Descs :
            \/ mountpts[i].mounted
            \/ ~mountpts[i].is_mandatory /\ ApplyFailed(i)

\* C3 amended: after initNs returned true on the full path every non-symlink
\* descriptor has mounted = true (its kernel mount succeeded) or is
\* non-mandatory and failed to apply; a symlink descriptor has mounted = false,
\* and its link was created or it is non-mandatory and failed to apply.
C3_Amended ==
    FullPathTrue =>
        \A i \in Descs :
            IF mountpts[i].is_symlink
            THEN /\ ~mountpts[i].mounted
                 /\ \/ SymlinkOk(i)
                    \/ ~mountpts[i].is_mandatory /\ ApplyFailed(i)
            ELSE \/ mountpts[i].mounted /\ MountOk(i)
                 \/ ~mountpts[i].is_mandatory /\ ApplyFailed(i)

\* C3 witness: initNs returned true with a mandatory symlink descriptor (link
\* created, mounted = false) and a mandatory mounted descriptor
C3_Witness ==
    /\ FullPathTrue
    /\ \E i, j \in Descs :
          /\ mountpts[i].is_symlink /\ mountpts[i].is_mandatory
          /\ SymlinkOk(i) /\ ~mountpts[i].mounted
          /\ ~mountpts[j].is_symlink /\ mountpts[j].is_mandatory /\ mountpts[j].mounted

\* descriptor i is due for the read-only re-mount
NeedsRO(i) ==
    /\ ~mountpts[i].is_symlink
    /\ mountpts[i].mounted
    /\ MS_RDONLY \in mountpts[i].flags

\* descriptor i was re-mounted read-only
RemountOk(i) ==
    \E k \in Calls :
        IsRemount(k, i) /\ MS_RDONLY \in calls[k].flags /\ calls[k].res = "ok"

\* the read-only pass probed descriptor i
Probed(i) == \E k \in Calls : calls[k].op = "statvfs" /\ calls[k].mpt = i

\* C4 as stated: when initNs returns true on the full path, every mounted
\* non-symlink descriptor that requests read-only was re-mounted read-only,
\* mandatory or not.
C4_Original ==
    FullPathTrue => \A i \in Descs : NeedsRO(i) => RemountOk(i)

\* C4 amended: when initNs returns true on the full path, every MANDATORY
\* mounted non-symlink descriptor that requests read-only was re-mounted
\* read-only; a non-mandatory one was probed for the re-mount, and is left
\* writable exactly when its probe or its re-mount failed.
C4_Amended ==
    FullPathTrue =>
        \A i \in Descs :
            NeedsRO(i) =>
                /\ Probed(i)
                /\ mountpts[i].is_mandatory => RemountOk(i)
                /\ ~RemountOk(i) =>
                      \E k \in Calls :
                          /\ calls[k].mpt = i /\ calls[k].res = "fail"
                          /\ calls[k].op = "statvfs" \/ IsRemount(k, i)

\* C4 witness: initNs returned true with one mandatory descriptor re-mounted
\* read-only and one non-mandatory descriptor whose re-mount failed
C4_Witness ==
    /\ FullPathTrue
    /\ \E i, j \in Descs :
          /\ NeedsRO(i) /\ mountpts[i].is_mandatory /\ RemountOk(i)
          /\ NeedsRO(j) /\ ~mountpts[j].is_mandatory /\ ~RemountOk(j)

\* call k of the given kind succeeded before call n
OkBefore(op, dst, n) ==
    \E k \in 1..(n - 1) :
        calls[k].op = op /\ calls[k].dst = dst /\ calls[k].mpt = 0 /\ calls[k].res = "ok"

\* C5: no mount call of the mount pass carries read-only, whatever the
\* descriptor's flags; a mount call carrying read-only comes only after
\* pivot_root, the lazy detach of "/" and chdir(cwd) have succeeded.
C5_ReadOnlyOrder ==
    \A n \in Calls :
        calls[n].op = "mount" =>
            /\ ~(\E k \in 1..(n - 1) : calls[k].op = "pivot_root") =>
                  MS_RDONLY \notin calls[n].flags
            /\ MS_RDONLY \in calls[n].flags =>
                  /\ OkBefore("pivot_root", destdir, n)
                  /\ OkBefore("umount2", "/", n)
                  /\ OkBefore("chdir", Cwd, n)
                  /\ MS_REMOUNT \in calls[n].flags

\* C5 witness: a descriptor that requests read-only was mounted in the mount
\* pass without read-only and re-mounted read-only in the second pass
C5_Witness ==
    \E i \in Descs :
        /\ MS_RDONLY \in mountpts[i].flags
        /\ \E k \in Calls :
              IsPassMount(k, i) /\ calls[k].res = "ok" /\ MS_RDONLY \notin calls[k].flags
        /\ RemountOk(i)

\* C6: no kernel mount call is ever issued for a symlink descriptor, in the
\* mount pass or in the read-only pass; the only calls made for it are the
\* creation of the parent directories and the symlink.
C6_SymlinkNoMount ==
    \A k \in Calls :
        (calls[k].mpt # 0 /\ mountpts[calls[k].mpt].is_symlink) =>
            calls[k].op \in {"createDirRecursively", "symlink"}

\* C6 witness: initNs returned true with a symlink descriptor that requests
\* read-only and has source-content, its link created
C6_Witness ==
    /\ FullPathTrue
    /\ \E i \in Descs :
          /\ mountpts[i].is_symlink /\ SymlinkOk(i)
          /\ MS_RDONLY \in mountpts[i].flags /\ mountpts[i].src_content # ""

BindRecPrivate == {MS_BIND, MS_REC, MS_PRIVATE}

\* C7 as stated: every descriptor with source-content carries bind, recursive
\* and private in its flags once the add has returned, before the mount pass.
C7_Original ==
    \A i \in Descs :
        mountpts[i].src_content # "" => BindRecPrivate \subseteq mountpts[i].flags

\* the content of descriptor i was staged (written to its dynamic file)
Staged(i) ==
    \E k \in Calls :
        calls[k].op = "write_staged" /\ calls[k].mpt = i /\ calls[k].res = "ok"

\* C7 amended: finalization copies the flags passed to the add unchanged; a
\* source-content descriptor carries bind, recursive and private from the
\* moment the mount pass has staged its content, so every kernel mount call
\* made for it carries them.
C7_Amended ==
    /\ \A i \in Descs :
          ~Staged(i) => \E a \in AddArgs : mountpts[i].flags = a.flags
    /\ \A i \in Descs :
          (mountpts[i].src_content # "" /\ Staged(i)) =>
              BindRecPrivate \subseteq mountpts[i].flags
    /\ \A k \in Calls :
          (calls[k].mpt # 0 /\ IsPassMount(k, calls[k].mpt)
             /\ mountpts[calls[k].mpt].src_content # "") =>
              BindRecPrivate \subseteq calls[k].flags

\* C7 witness: a source-content descriptor was mounted with bind, recursive
\* and private although the add was given none of them
C7_Witness ==
    \E i \in Descs :
        /\ mountpts[i].src_content # "" /\ mountpts[i].mounted
        /\ BindRecPrivate \subseteq mountpts[i].flags
        /\ \E k \in Calls : IsPassMount(k, i) /\ calls[k].res = "ok"

\* C8: mounted is false from finalization until the mount pass applies the
\* descriptor, and afterwards true exactly for the descriptors whose kernel
\* mount call of the mount pass succeeded: a failed mount, a symlink creation
\* or the read-only pass never sets it, and nothing resets it.
C8_Mounted ==
    /\ \A i \in Descs : ~Applied(i) => ~mountpts[i].mounted
    /\ \A i \in Descs : mountpts[i].mounted <=> MountOk(i)
    /\ \A i \in Descs : mountpts[i].is_symlink => ~mountpts[i].mounted

\* C8 witness: the run ended with one descriptor mounted, one whose mount
\* failed and so has mounted = false
C8_Witness ==
    /\ pc = "done"
    /\ \E i, j \in Descs :
          /\ mountpts[i].mounted /\ RemountOk(i)
          /\ ~mountpts[j].mounted
          /\ \E k \in Calls : IsPassMount(k, j) /\ calls[k].res = "fail"

\* C9: without CLONE_NEWNS initNs issues no mount, umount or pivot_root call
\* and leaves every mounted flag false; with an empty chroot path it returns
\* false without any call; otherwise it calls chroot, then chdir("/"), and
\* returns true exactly when both succeeded.
C9_Degenerate ==
    ~clone_newns =>
        /\ \A k \in Calls : calls[k].op \in {"chroot", "chdir"} /\ calls[k].mpt = 0
        /\ \A i \in Descs : ~mountpts[i].mounted
        /\ chroot = "" => calls = <<>> /\ ret # "true"
        /\ Len(calls) >= 1 => calls[1] \in {Call("chroot", 0, "", chroot, {}, r) :
                                               r \in {"ok", "fail"}}
        /\ Len(calls) >= 2 =>
              /\ calls[1].res = "ok"
              /\ calls[2] \in {Call("chdir", 0, "", "/", {}, r) : r \in {"ok", "fail"}}
        /\ Len(calls) <= 2
        /\ pc = "done" =>
              /\ ret \in {"true", "false"}
              /\ ret = "true" <=>
                    (Len(calls) = 2 /\ calls[1].res = "ok" /\ calls[2].res = "ok")
              /\ chroot = "" => ret = "false"

\* C9 witness: without CLONE_NEWNS and with descriptors configured, chroot and
\* chdir succeeded and initNs returned true
C9_Witness ==
    /\ ~clone_newns /\ chroot # "" /\ Len(mountpts) = MaxMounts
    /\ pc = "done" /\ ret = "true"

-----------------------------------------------------------------------------
(* Properties of cgroup::initNsFromParent *)

\* the log of the install: directory creations and file writes
InstallCalls == SelectSeq(cg_calls, LAMBDA c : c.op \in {"mkdir", "write"})

CtlIndex(ctl) == CHOOSE k \in 1..Len(Controllers) : Controllers[k] = ctl

\* the configured limit of a controller
Limit(ctl) ==
    CASE ctl = "memory"  -> cg_conf.mem_max
      [] ctl = "pids"    -> cg_conf.pids_max
      [] ctl = "net_cls" -> cg_conf.net_cls_classid
      [] ctl = "cpu"     -> cg_conf.cpu_ms_per_sec

Enabled(ctl) == Limit(ctl) # 0

\* every step of the install of a controller was made and succeeded: the mkdir
\* (EEXIST accepted) and the write of each of its files
Installed(ctl) ==
    /\ \E k \in 1..Len(InstallCalls) :
          /\ InstallCalls[k].op = "mkdir" /\ InstallCalls[k].ctl = ctl
          /\ InstallCalls[k].res \in {"ok", "EEXIST"}
    /\ \A x \in CgFiles :
          x[1] = ctl =>
              \E k \in 1..Len(InstallCalls) :
                  /\ InstallCalls[k].op = "write" /\ InstallCalls[k].ctl = ctl
                  /\ InstallCalls[k].path = GroupPath(ctl, cg_conf.pid) \o "/" \o x[2]
                  /\ InstallCalls[k].res = "ok"

\* C10: initNsFromParent installs the controllers in the order memory, pids,
\* net_cls, cpu; it returns true if and only if the mkdir (EEXIST accepted) and
\* every file write of every enabled controller succeeded; the first failing
\* step makes it return false, and no directory is created and no file written
\* after it.
C10_Install ==
    /\ \A k, l \in 1..Len(InstallCalls) :
          k < l => CtlIndex(InstallCalls[k].ctl) <= CtlIndex(InstallCalls[l].ctl)
    /\ \A k \in 1..Len(InstallCalls) :
          InstallCalls[k].res = "fail" =>
              k = Len(InstallCalls) /\ cg_ret = "false"
    /\ cg_ret = "true" => \A c \in CtlSet : Enabled(c) => Installed(c)
    /\ cg_ret = "false" =>
          /\ Len(InstallCalls) > 0
          /\ InstallCalls[Len(InstallCalls)].res = "fail"
    /\ cg_pc \in {"returned", "finish_pids", "finish_net_cls", "finish_cpu",
                  "finished"} <=> cg_ret # "none"

\* C10 witness: memory was installed, the write of pids.max failed,
\* initNsFromParent returned false and net_cls and cpu, both enabled, were
\* left untouched
C10_Witness ==
    /\ cg_ret = "false"
    /\ \A c \in CtlSet : Enabled(c)
    /\ Installed("memory")
    /\ InstallCalls[Len(InstallCalls)].path = GroupPath("pids", cg_conf.pid) \o "/pids.max"
    /\ cg_pc = "finished"

-----------------------------------------------------------------------------
(* Properties of cgroup::initNsFromParent and cgroup::finishFromParent, continued *)

\* the content of a control file of a group
File(ctl, file) == cg_files[<<ctl, file>>]

\* the calls made on a controller's group, in order
CallsOf(ctl) == SelectSeq(cg_calls, LAMBDA c : c.ctl = ctl)

\* the limit files of a controller: its control files but "tasks"
LimitFiles(ctl) == {x \in CgFiles : x[1] = ctl /\ x[2] # "tasks"}

\* the k-th install call is a write of the control file x
IsWriteOf(k, x) ==
    /\ InstallCalls[k].op = "write"
    /\ InstallCalls[k].ctl = x[1]
    /\ InstallCalls[k].path = GroupPath(x[1], cg_conf.pid) \o "/" \o x[2]

\* C11: after initNsFromParent has returned true, for every controller with a
\* non-zero limit the group directory NSJAIL.<pid> exists and its control files
\* hold the configured values: memory.limit_in_bytes the decimal limit and
\* memory.oom_control "0"; pids.max the decimal limit; net_cls.classid "0x"
\* and the lowercase hexadecimal class id; the cpu quota and period files are
\* written; and the tasks file of each such group holds the decimal pid.
C11_Values ==
    (cg_ret = "true" /\ cg_pc = "returned") =>
        /\ \A c \in CtlSet : Enabled(c) =>
              /\ c \in cg_dirs
              /\ File(c, "tasks") = "1234"
        /\ cg_conf.mem_max = 67108864 =>
              /\ File("memory", "memory.limit_in_bytes") = "67108864"
              /\ File("memory", "memory.oom_control") = "0"
        /\ cg_conf.pids_max = 5 => File("pids", "pids.max") = "5"
        /\ cg_conf.net_cls_classid = 1048577 =>
              File("net_cls", "net_cls.classid") = "0x100001"
        /\ Enabled("cpu") =>
              /\ File("cpu", "cpu.cfs_quota_us") # ""
              /\ File("cpu", "cpu.cfs_period_us") # ""

C11_Witness ==
    /\ cg_ret = "true" /\ cg_pc = "returned"
    /\ \A c \in CtlSet : Enabled(c)
    /\ File("net_cls", "net_cls.classid") = "0x100001"
    /\ File("cpu", "tasks") = "1234"

\* C12: for every non-zero cpu limit L of the 32-bit field, cpu.cfs_quota_us is
\* written with the decimal rendering of the mathematical product L * 1000
\* (the digits of L followed by "000"), and cpu.cfs_period_us always with
\* "1000000".  Violated: the product is computed in 32 bits and wraps.
C12_NoWrap ==
    \A k \in 1..Len(InstallCalls) :
        /\ IsWriteOf(k, <<"cpu", "cpu.cfs_quota_us">>) =>
              InstallCalls[k].data = ToString(cg_conf.cpu_ms_per_sec) \o "000"
        /\ IsWriteOf(k, <<"cpu", "cpu.cfs_period_us">>) =>
              InstallCalls[k].data = "1000000"

\* the rmdir calls of finishFromParent
FinishCalls == SelectSeq(cg_calls, LAMBDA c : c.op = "rmdir")

\* the controllers with a non-zero limit, in the order memory, pids, net_cls, cpu
EnabledInOrder == SelectSeq(Controllers, Enabled)

\* the install created the group directory of the controller
CreatedByInstall(ctl) ==
    \E k \in 1..Len(InstallCalls) :
        /\ InstallCalls[k].op = "mkdir" /\ InstallCalls[k].ctl = ctl
        /\ InstallCalls[k].res = "ok"

\* C13: finishFromParent never fails or stops early: for every controller with
\* a non-zero limit it attempts one rmdir of the group directory, in the order
\* memory, pids, net_cls, cpu, also when an earlier removal failed; afterwards
\* every directory the matching install created is absent or its failed
\* removal was logged; after a full and after a partial install.
C13_Finish ==
    /\ \A k \in 1..Len(FinishCalls) :
          /\ k <= Len(EnabledInOrder)
          /\ FinishCalls[k].ctl = EnabledInOrder[k]
          /\ FinishCalls[k].path = GroupPath(EnabledInOrder[k], cg_conf.pid)
    /\ cg_pc = "finished" =>
          /\ Len(FinishCalls) = Len(EnabledInOrder)
          /\ \A c \in CtlSet :
                CreatedByInstall(c) =>
                    \/ c \notin cg_dirs
                    \/ \E k \in 1..Len(FinishCalls) :
                          FinishCalls[k].ctl = c /\ FinishCalls[k].res = "fail"

\* a partial install, the first removal failed, a later one was made and worked
C13_Witness ==
    /\ cg_pc = "finished" /\ cg_ret = "false"
    /\ Len(FinishCalls) = 4
    /\ CreatedByInstall("memory") /\ CreatedByInstall("pids")
    /\ FinishCalls[1].res = "fail" /\ "memory" \in cg_dirs
    /\ FinishCalls[2].res = "ok" /\ "pids" \notin cg_dirs
    /\ FinishCalls[3].res = "fail"

\* C14: a controller whose limit is zero is left untouched by the install and
\* by the finish (no call on its group, its directory and files never change),
\* it never makes the install return false, and with all four limits zero the
\* install returns true and changes nothing.
C14_ZeroUntouched ==
    /\ [](/\ \A c \in CtlSet : ~Enabled(c) => CallsOf(c) = <<>>
          /\ cg_ret = "false" =>
                /\ Len(InstallCalls) > 0
                /\ InstallCalls[Len(InstallCalls)].res = "fail"
                /\ Enabled(InstallCalls[Len(InstallCalls)].ctl)
          /\ ((\A c \in CtlSet : ~Enabled(c)) /\ cg_pc \notin {"init_mem", "init_pids",
                                                "init_net_cls", "init_cpu"}) =>
                cg_ret = "true" /\ cg_calls = <<>>)
    /\ [][\A c \in CtlSet : ~Enabled(c) =>
              /\ (c \in cg_dirs') = (c \in cg_dirs)
              /\ \A x \in CgFiles : x[1] = c => cg_files'[x] = cg_files[x]]_vars

\* a left-over directory of the zero-limit memory controller is still there
\* after an install of the other three and the finish
C14_Witness ==
    /\ cg_pc = "finished" /\ cg_ret = "true"
    /\ ~Enabled("memory") /\ "memory" \in cg_dirs
    /\ Enabled("pids") /\ Enabled("net_cls") /\ Enabled("cpu")
    /\ Len(FinishCalls) = 3

\* C20: within the install of each controller the pid is written to the tasks
\* file only after every limit file of that controller was written
\* successfully; when the mkdir or a limit write fails the pid is never
\* enrolled in that group.
C20_EnrolLast ==
    \A c \in CtlSet :
        /\ \A k \in 1..Len(InstallCalls) :
              IsWriteOf(k, <<c, "tasks">>) =>
                  \A x \in LimitFiles(c) :
                      \E j \in 1..(k - 1) :
                          IsWriteOf(j, x) /\ InstallCalls[j].res = "ok"
        /\ (\E k \in 1..Len(InstallCalls) :
                /\ InstallCalls[k].ctl = c /\ InstallCalls[k].res = "fail"
                /\ ~IsWriteOf(k, <<c, "tasks">>)) =>
              /\ File(c, "tasks") = ""
              /\ \A k \in 1..Len(InstallCalls) : ~IsWriteOf(k, <<c, "tasks">>)

\* memory was enrolled, then the write of the second cpu limit file failed
C20_Witness ==
    /\ File("memory", "tasks") = "1234"
    /\ File("cpu", "cpu.cfs_quota_us") # ""
    /\ InstallCalls[Len(InstallCalls)].path =
          GroupPath("cpu", cg_conf.pid) \o "/cpu.cfs_period_us"
    /\ InstallCalls[Len(InstallCalls)].res = "fail"
    /\ File("cpu", "tasks") = ""

-----------------------------------------------------------------------------
(* Properties of mnt::initNs in MODE_STANDALONE_EXECVE *)

\* the positions of initNsInternal
Constructing == pc \notin {"config", "idle", "exited", "killed"}

\* C15: in MODE_STANDALONE_EXECVE the whole construction runs in the cloned
\* sub-child; the caller does not return before the sub-child has been reaped;
\* it returns true if and only if the sub-child exited normally with code 0,
\* a code the sub-child uses only when initNsInternal returned true (when it
\* returned false the exit code is another, non-zero one); when the clone
\* fails initNs returns false and no construction step has run.
C15_Standalone ==
    mode = MODE_STANDALONE_EXECVE =>
        /\ (Constructing \/ calls # <<>>) => child # "none"
        /\ (Constructing /\ pc # "done") => child = "running"
        /\ (init_ret # "none" /\ child # "none") => child = "reaped"
        /\ init_ret # "none" =>
              (init_ret = "true" <=>
                  (child = "reaped" /\ wstatus.kind = "exited" /\ wstatus.code = 0))
        /\ wstatus.kind = "exited" =>
              /\ ret \in {"true", "false"}
              /\ wstatus.code = 0 <=> ret = "true"
        /\ init_ret = "true" => ret = "true"
        /\ (ppc = "returned" /\ child = "none") =>
              init_ret = "false" /\ calls = <<>> /\ ~Constructing

\* the construction failed in the sub-child and the caller returned false
C15_Witness ==
    /\ mode = MODE_STANDALONE_EXECVE
    /\ child = "reaped"
    /\ wstatus.kind = "exited" /\ wstatus.code # 0
    /\ ret = "false"
    /\ init_ret = "false"
    /\ Len(calls) > 3

-----------------------------------------------------------------------------
(* Properties of addMountPtHead and addMountPtTail *)

Reverse(q) == [k \in 1..Len(q) |-> q[Len(q) + 1 - k]]

\* the adds that returned true: the head adds latest first, then the tail adds
AddOrder ==
    Reverse(SelectSeq(adds, LAMBDA e : e.where = "head" /\ e.ret = "true"))
    \o SelectSeq(adds, LAMBDA e : e.where = "tail" /\ e.ret = "true")

\* the value of a set environment variable; "" for no variable named
EnvValue(name) ==
    IF name = "" THEN "" ELSE (CHOOSE p \in env : p[1] = name)[2]

IsSet(name) == \E p \in env : p[1] = name

\* descriptor d is the one an add with the arguments a builds
BuiltFrom(d, a) ==
    /\ d.src = EnvValue(a.src_env) \o a.src
    /\ d.dst = EnvValue(a.dst_env) \o a.dst
    /\ d.fs_type = a.fstype /\ d.options = a.options
    /\ a.flags \subseteq d.flags
    /\ d.is_symlink = a.is_symlink /\ d.is_mandatory = a.is_mandatory
    /\ d.src_content = a.src_content

\* the descriptors the read-only pass has visited, in the order of its calls
RemountOrder ==
    LET probes == SelectSeq(calls, LAMBDA c : c.op = "statvfs")
    IN  [k \in 1..Len(probes) |-> probes[k].mpt]

\* C16: after any sequence of addMountPtHead and addMountPtTail calls the
\* descriptor sequence is the successful head adds in reverse call order
\* followed by the successful tail adds in call order, and both passes of
\* initNsInternal apply the descriptors in exactly that order.
C16_Order ==
    /\ Len(mountpts) = Len(AddOrder)
    /\ \A i \in Descs : BuiltFrom(mountpts[i], AddOrder[i].args)
    /\ ApplyOrder = [k \in 1..Len(ApplyOrder) |-> k]
    /\ RemountOrder = [k \in 1..Len(RemountOrder) |-> k]
    /\ \A k \in Calls :
          calls[k].op = "statvfs" =>
              calls[k].dst = EnvValue(AddOrder[calls[k].mpt].args.dst_env) \o "/d"
    /\ AfterMountPass => Len(ApplyOrder) = Len(AddOrder)
    /\ (pc = "done" /\ ret = "true") => Len(RemountOrder) = Len(AddOrder)

\* a tail add, then a head add that went in front of it; both passes done
C16_Witness ==
    /\ Len(adds) = 2
    /\ adds[1].where = "tail" /\ adds[1].args.dst_env = ""
    /\ adds[2].where = "head" /\ adds[2].args.dst_env = "D"
    /\ Len(mountpts) = 2
    /\ mountpts[1].dst = "/ed/d" /\ mountpts[2].dst = "/d"
    /\ pc = "done" /\ ret = "true"
    /\ RemountOrder = <<1, 2>>

\* C17: an add (head or tail) whose source-env or destination-env names an
\* unset variable returns false and leaves the descriptor sequence unchanged;
\* with the variables set, the source (destination) of the descriptor added is
\* the value of the variable followed by the source (destination) passed.
C17_Env ==
    [][Len(adds') = Len(adds) + 1 =>
          LET e == adds'[Len(adds')]
              a == e.args
              unset == \/ a.src_env # "" /\ ~IsSet(a.src_env)
                       \/ a.dst_env # "" /\ ~IsSet(a.dst_env)
              d == IF e.where = "head" THEN mountpts'[1]
                   ELSE mountpts'[Len(mountpts')]
          IN  IF unset
              THEN add_ret' = "false" /\ mountpts' = mountpts
              ELSE /\ add_ret' = "true"
                   /\ Len(mountpts') = Len(mountpts) + 1
                   /\ d.src = EnvValue(a.src_env) \o a.src
                   /\ d.dst = EnvValue(a.dst_env) \o a.dst]_vars

\* an add with both variables set, then an add naming an unset variable
C17_Witness ==
    /\ Len(adds) = 2
    /\ adds[1].args.src_env = "S" /\ adds[1].args.dst_env = "D"
    /\ adds[2].args.src_env = "U"
    /\ add_ret = "false"
    /\ Len(mountpts) = 1
    /\ mountpts[1].src = "/es/s" /\ mountpts[1].dst = "/ed/d"

-----------------------------------------------------------------------------
(* Properties of remountRO and the read-only pass *)

\* the pairs of mount flag and statvfs flag the read-only pass is to preserve
PreservedPairs ==
    { <<MS_RDONLY, ST_RDONLY>>, <<MS_NOSUID, ST_NOSUID>>, <<MS_NODEV, ST_NODEV>>,
      <<MS_NOEXEC, ST_NOEXEC>>, <<MS_SYNCHRONOUS, ST_SYNCHRONOUS>>,
      <<MS_MANDLOCK, ST_MANDLOCK>>, <<MS_NOATIME, ST_NOATIME>>,
      <<MS_NODIRATIME, ST_NODIRATIME>>, <<MS_RELATIME, ST_RELATIME>> }

\* the read-only pass has begun: chdir(cwd) succeeded
RemountStarted ==
    \E k \in Calls : calls[k].op = "chdir" /\ calls[k].dst = Cwd /\ calls[k].res = "ok"

\* the read-only pass has processed descriptor i
Reached(i) ==
    /\ RemountStarted
    /\ i < idx \/ (pc = "done" /\ i = idx)

\* the read-only pass issued a mount call for descriptor i
Remounted(i) == \E k \in Calls : IsRemount(k, i)

\* the statvfs probe of descriptor i succeeded
ProbeOk(i) ==
    \E k \in Calls : calls[k].op = "statvfs" /\ calls[k].mpt = i /\ calls[k].res = "ok"

\* the mount call k of the read-only pass is as the pass is to make it for
\* descriptor i: destination as source and target, flags remount | read-only
\* | bind and, of the preserved flags, those the probe before it reported
RemountCallExact(k, i) ==
    /\ calls[k].src = mountpts[i].dst /\ calls[k].dst = mountpts[i].dst
    /\ k > 1 /\ calls[k - 1].op = "statvfs" /\ calls[k - 1].mpt = i
    /\ calls[k - 1].res = "ok"
    /\ {MS_REMOUNT, MS_RDONLY, MS_BIND} \subseteq calls[k].flags
    /\ \A p \in PreservedPairs :
          p[1] # MS_RDONLY => (p[1] \in calls[k].flags <=> p[2] \in calls[k - 1].flags)
    /\ calls[k].flags \subseteq
          {MS_REMOUNT, MS_RDONLY, MS_BIND} \cup {p[1] : p \in PreservedPairs}

\* C18 as stated: the read-only pass issues a mount call for a descriptor if
\* and only if the descriptor is mounted, is no symlink and has read-only in
\* its flags; here for the passes that ran to their end and returned true.
C18_Original ==
    FullPathTrue => \A i \in Descs : Remounted(i) <=> NeedsRO(i)

\* C18 amended: the read-only pass issues a mount call for a descriptor only
\* if the descriptor is mounted, is no symlink and has read-only in its flags;
\* for each such descriptor the pass reaches it probes the destination with
\* statvfs and issues the mount call if and only if the probe succeeded (a
\* failed probe ends the re-mount of that descriptor without a mount call).
\* The call uses the destination as source and target, and its flags are
\* exactly remount | read-only | bind plus each preserved mount flag whose
\* statvfs flag the probe reported: none reported is dropped, no other added.
C18_Amended ==
    /\ \A i \in Descs :
          /\ Remounted(i) => NeedsRO(i) /\ Reached(i)
          /\ (Reached(i) /\ NeedsRO(i)) =>
                Probed(i) /\ (Remounted(i) <=> ProbeOk(i))
          /\ Probed(i) => NeedsRO(i)
    /\ \A k \in Calls : \A i \in Descs :
          IsRemount(k, i) => RemountCallExact(k, i)

\* initNs returned true; a descriptor was re-mounted with the four flags its
\* probe reported, another asked for read-only and its probe failed
C18_Witness ==
    /\ FullPathTrue
    /\ Len(mountpts) = 2
    /\ NeedsRO(1) /\ NeedsRO(2)
    /\ \E k \in Calls :
          /\ IsRemount(k, 1)
          /\ calls[k].flags = {MS_REMOUNT, MS_RDONLY, MS_BIND, MS_NOSUID, MS_NODEV,
                               MS_NOEXEC}
          /\ ST_IMMUTABLE \in calls[k - 1].flags
    /\ Probed(2) /\ ~ProbeOk(2) /\ ~Remounted(2)

-----------------------------------------------------------------------------
(* Properties of the is_dir resolution of addMountPt *)

\* C19: the add resolves the tri-state is_dir by this table, for every
\* combination of inputs and in this priority: yes gives true; no gives false;
\* maybe gives false when the source content is non-empty, otherwise true when
\* the finalized source (after the variable was prepended) is empty, otherwise
\* the result of the directory probe of the source when the bind flag is set
\* (false for an existing regular file or a missing path), otherwise true.
C19_IsDir ==
    Len(mountpts) = Len(AddOrder) =>
        \A i \in Descs :
            LET a == AddOrder[i].args
                d == mountpts[i]
                src == EnvValue(a.src_env) \o a.src
                maybe == a.is_dir = NS_DIR_MAYBE
            IN  /\ a.is_dir = NS_DIR_YES => d.is_dir
                /\ a.is_dir = NS_DIR_NO => ~d.is_dir
                /\ (maybe /\ a.src_content # "") => ~d.is_dir
                /\ (maybe /\ a.src_content = "" /\ src = "") => d.is_dir
                /\ (maybe /\ a.src_content = "" /\ src # "" /\ MS_BIND \in a.flags) =>
                      (d.is_dir <=> src \in dirs)
                /\ (maybe /\ a.src_content = "" /\ src # "" /\ MS_BIND \notin a.flags) =>
                      d.is_dir

\* maybe, bind flag, no content, the source an existing regular file: false
C19_Witness ==
    /\ Len(adds) = 1 /\ Len(mountpts) = 1
    /\ adds[1].args.is_dir = NS_DIR_MAYBE
    /\ adds[1].args.src_content = ""
    /\ adds[1].args.src = "/file" /\ adds[1].args.src_env = "S"
    /\ MS_BIND \in adds[1].args.flags
    /\ mountpts[1].src = "/es/file"
    /\ ~mountpts[1].is_dir

-----------------------------------------------------------------------------
(* Properties of the staging of source content in mountPt *)

\* the calls that open a staging file, in order
StagingOpens == SelectSeq(calls, LAMBDA c : c.op = "open_staged")

\* the staging file of descriptor i: the file its open_staged call names
StagedFile(i) ==
    (CHOOSE c \in {calls[k] : k \in Calls} : c.op = "open_staged" /\ c.mpt = i).dst

\* descriptor i has source content and its mount in the mount pass succeeded
StagedAndMounted(i) == mountpts[i].src_content # "" /\ mountpts[i].mounted

\* the unlink of the staging file of descriptor i was made and failed
UnlinkFailed(i) ==
    \E k \in Calls :
        /\ calls[k].op = "unlink" /\ calls[k].mpt = i
        /\ calls[k].dst = StagedFile(i) /\ calls[k].res = "fail"

\* every attempt to stage takes a file name no earlier attempt took, failed
\* attempts included, under tmpdir, and opens it with O_CREAT | O_EXCL
FreshNames ==
    /\ \A k, l \in 1..Len(StagingOpens) :
          k < l => StagingOpens[k].dst # StagingOpens[l].dst
    /\ Len(StagingOpens) = df_counter
    /\ \A k \in 1..Len(StagingOpens) :
          /\ {O_CREAT, O_EXCL} \subseteq StagingOpens[k].flags
          /\ StagingOpens[k].dst = tmpdir \o "/dynamic_file." \o ToString(k)

\* the successful mount of a staged descriptor is followed at once, before any
\* call for another descriptor, by the unlink of its staging file
UnlinkNext ==
    \A k \in Calls :
        (IsPassMount(k, calls[k].mpt) /\ calls[k].mpt > 0 /\ calls[k].res = "ok"
            /\ mountpts[calls[k].mpt].src_content # "") =>
                /\ k < Len(calls)
                /\ calls[k + 1].op = "unlink"
                /\ calls[k + 1].mpt = calls[k].mpt
                /\ calls[k + 1].dst = calls[k].src
                /\ calls[k].src = StagedFile(calls[k].mpt)

\* C21 as stated: every staging attempt takes a fresh file name and creates
\* the file exclusively, the staged file is unlinked right after its
\* descriptor's successful mount, and so no staged file of a successfully
\* mounted descriptor remains in the staging directory.
C21_Original ==
    /\ FreshNames
    /\ UnlinkNext
    /\ \A i \in Descs : StagedAndMounted(i) => StagedFile(i) \notin tmpfiles

\* C21 amended: every staging attempt takes a fresh file name (the counter
\* grows on every attempt, failed ones included) and creates the file
\* exclusively; right after the successful mount of a staged descriptor, before
\* the next descriptor is applied, the unlink of its staged file is attempted;
\* a staged file of a successfully mounted descriptor remains in the staging
\* directory if and only if that unlink failed (the failure is logged only).
C21_Amended ==
    /\ FreshNames
    /\ UnlinkNext
    /\ \A i \in Descs :
          StagedAndMounted(i) => (StagedFile(i) \in tmpfiles <=> UnlinkFailed(i))

\* the mount pass ended with two staged descriptors mounted: the file of the
\* first is gone, the unlink of the second failed and its file is left
C21_Witness ==
    /\ AfterMountPass
    /\ Len(mountpts) = 2
    /\ StagedAndMounted(1) /\ StagedAndMounted(2)
    /\ StagedFile(1) \notin tmpfiles
    /\ UnlinkFailed(2) /\ StagedFile(2) \in tmpfiles
    /\ df_counter = 2

-----------------------------------------------------------------------------
(* Properties of flagsToStr *)

\* the string split on "|": the pieces between the separator pieces
RECURSIVE SplitBar(_, _, _)
SplitBar(q, k, cur) ==
    IF k > Len(q) THEN <<cur>>
    ELSE IF q[k] = "|" THEN <<cur>> \o SplitBar(q, k + 1, "")
    ELSE SplitBar(q, k + 1, cur \o q[k])

Tokens(q) == IF q = <<>> THEN <<>> ELSE SplitBar(q, 1, "")

\* the names of the known flags set in the mask, in table order
KnownNames(flags) ==
    LET set == SelectSeq(mountFlags, LAMBDA e : HasBit(flags, e.flag))
    IN  [k \in 1..Len(set) |-> set[k].name]

\* the bits of the mask that are in no entry of the table
UnknownBits(flags) ==
    flags - SumOf({mountFlags[k].flag :
                      k \in {j \in 1..Len(mountFlags) : HasBit(flags, mountFlags[j].flag)}})

\* C22 as stated: for every mask, 0 included, the output split on "|" is
\* exactly the names of the known flags set in the mask, in table order,
\* followed by one hexadecimal token for the unknown bits if and only if the
\* mask has unknown bits; no trailing separator, no residue token otherwise.
C22_Original ==
    fl_flags # NoFlags =>
        Tokens(fl_str) =
            KnownNames(fl_flags) \o
            (IF UnknownBits(fl_flags) # 0
             THEN <<"0x" \o HexStr(UnknownBits(fl_flags))>> ELSE <<>>)

\* C22 amended: for every mask the output split on "|" is the names of the
\* known flags set in the mask, each once and in table order, followed by one
\* hexadecimal token if and only if the mask has unknown bits set or is 0: the
\* token renders the unknown bits, and for the mask 0 the output is the single
\* token "0".  There is no trailing separator and no empty token.
C22_Amended ==
    fl_flags # NoFlags =>
        /\ Tokens(fl_str) =
              KnownNames(fl_flags) \o
              (IF UnknownBits(fl_flags) # 0
               THEN <<"0x" \o HexStr(UnknownBits(fl_flags))>>
               ELSE IF fl_flags = 0 THEN <<"0">> ELSE <<>>)
        /\ fl_str # <<>> /\ fl_str[Len(fl_str)] # "|"
        /\ \A k \in 1..Len(Tokens(fl_str)) : Tokens(fl_str)[k] # ""

\* a mixed mask: read-only, bind and the unknown bits 256 and 2^26
C22_Witness ==
    /\ fl_flags = 1 + 4096 + 256 + 67108864
    /\ fl_str = <<"MS_RDONLY", "|", "MS_BIND", "|", "0x4000100">>

-----------------------------------------------------------------------------
(* Termination of the wait loop of mnt::initNs *)

\* the sub-child has terminated
Terminated == child \in {"zombie", "reaped", "gone"}

\* C23: in MODE_STANDALONE_EXECVE, once the sub-child has terminated initNs
\* eventually returns, whatever wait4 returns on each attempt (the pid, an
\* interruption, or an error such as "no child processes").
C23_Returns == Terminated ~> init_ret # "none"

=============================================================================
